---- MODULE Spec2Model ----
(***************************************************************************)
(* PLUG chat-agent gateway: session store, compactor and the orchestrator  *)
(* (PlugBot.on_message / _handle_message / _run_agent_loop).               *)
(*                                                                         *)
(* The messages table of SessionStore is one sequence of rows; a row's id  *)
(* (INTEGER PRIMARY KEY AUTOINCREMENT) is its index in the sequence.  Each *)
(* admitted Discord message runs in its own on_message coroutine t, whose  *)
(* position is h[t].pc; the steps of a coroutine are the stretches between *)
(* its awaits on the LLM, the tool executor and Discord.                   *)
(***************************************************************************)
EXTENDS Integers, Sequences, FiniteSets, TLC

\* ---------------------------------------------------------------- bounds

\* on_message coroutines that may be in flight at once.
MaxTasks == 2
\* Rows the messages table may hold (guards every add_message) when the bot
\* serves one channel, and when it serves two.
MaxRows == 8
MaxRowsShared == 4
\* Tool calls one assistant message may carry.
MaxToolCalls == 2
\* client.py:42 sets 40; the loop is the same for every positive value.
MAX_TOOL_ROUNDS == 3
\* CompactionConfig.max_context_tokens / target_tokens (config.py:64-65 default
\* to 100000 / 60000); the values of the spec's scenario S2 are used.
max_context_tokens == 100
target_tokens == 60

\* ------------------------------------------------------------- constants

\* token_count the nudge is stored with (client.py:446).
NudgeTokenCount == 20
\* count_message_tokens of the nudge text: 4 + len(text) // 4 with the
\* fallback of count_tokens (76 characters).
NudgeSize == 23
\* "Too few messages to compact" (compactor.py:149).
MinMessages == 4
\* "Must keep at least the last 2 messages" (compactor.py:166).
KeepLast == 2

Channels == {"c1", "c2"}
Tasks == 1..MaxTasks
\* Values count_message_tokens takes on the messages of a behaviour: a user
\* message and an assistant message with tool calls (whose arguments may hold
\* a whole file) are short or long; text answers, tool results and summaries
\* are short.
ShortSize == 10
LongSize == 60
UserSizes == {ShortSize, LongSize}
CallSizes == {ShortSize, LongSize}
NoId == -1
ToolNames == <<"exec", "read_file", "write_file">>
MaxRoundsNotice == "[Agent reached maximum tool-call rounds. Stopping.]"
NudgeText == "Use your tools now."
SummaryPrefix == "[Previous conversation summary]"

VARIABLES
    messages,            \* SessionStore: the messages table
    processing,          \* PlugBot._processing
    h,                   \* the on_message coroutines in flight; dropped (history)
                         \* tells that a message was dropped during the turn
    compaction_enabled,  \* config.compaction.enabled
    cc,                  \* the latest check_and_compact call (history)
    appended,            \* per channel, the messages passed to add_message (history)
    last_failed,         \* channels whose latest summarization call failed (history)
    channels,            \* the channels the bot serves in this run
    max_rows,            \* the row bound of this run
    chain,               \* a ProviderChain and its chat call in progress
    cron_jobs,           \* CronStore: the cron_jobs table
    cron_runs,           \* CronStore: the cron_runs table
    now,                 \* the wall clock, time.time()
    sched,               \* a CronScheduler: _running and its loop tasks
    agents,              \* AgentManager._agents and the _run task of each
    semaphore,           \* AgentManager._semaphore: the free slots
    chunker,             \* a chunk_message call: its arguments and locals
    inbox,               \* the bot's configuration and the messages on_message saw
    store_call,          \* a SessionStore call on a table of several locations
    cron_call,           \* a next_cron_time call on a five-field expression
    shutdown             \* the shutdown tasks of the bot and the components they stop

orchestrator_vars == <<messages, processing, h, compaction_enabled, cc, appended,
                       last_failed, channels, max_rows>>
cron_vars == <<cron_jobs, cron_runs, now, sched>>
agent_vars == <<agents, semaphore>>
function_vars == <<chunker, inbox, store_call, cron_call, shutdown>>
component_vars == <<chain, cron_vars, agent_vars, function_vars>>

vars == <<orchestrator_vars, component_vars>>

\* The components a run does not exercise: no chain call, no cron job, no
\* scheduler loop, no sub-agent.
ChainIdle == chain = <<>>
CronIdle == cron_jobs = <<>> /\ cron_runs = <<>> /\ now = 0 /\ sched = <<>>
AgentsIdle == agents = <<>> /\ semaphore = 0
FunctionsIdle ==
    chunker = <<>> /\ inbox = <<>> /\ store_call = <<>> /\ cron_call = <<>> /\ shutdown = <<>>
ComponentsIdle == ChainIdle /\ CronIdle /\ AgentsIdle /\ FunctionsIdle

\* ------------------------------------------------------- models/base.py

Message(role, content, size, tool_calls, tool_call_id, name) ==
    [role |-> role, content |-> content, size |-> size,
     tool_calls |-> tool_calls, tool_call_id |-> tool_call_id, name |-> name]

\* ChatResponse.has_tool_calls: bool(self.message.tool_calls)
has_tool_calls(msg) == Len(msg.tool_calls) > 0

\* ------------------------------------------------- sessions/compactor.py

\* count_message_tokens: 4 + tokens of content, tool calls and name; the
\* field size carries that number for the message's text.
count_message_tokens(msg) == msg.size

\* -------------------------------------------------- sessions/store.py

\* add_message: json.dumps of a non-empty tool_calls list, NULL otherwise.
\* <<>> is both None and NULL: the providers build a list only for a
\* non-empty tool_calls of the response (proxy.py:115, ollama.py:154).
tool_calls_json(tool_calls) == IF Len(tool_calls) > 0 THEN tool_calls ELSE <<>>

Row(channel_id, msg, token_count) ==
    [channel_id |-> channel_id, role |-> msg.role, content |-> msg.content,
     size |-> msg.size, tool_calls |-> tool_calls_json(msg.tool_calls),
     tool_call_id |-> msg.tool_call_id, name |-> msg.name,
     token_count |-> token_count, compacted |-> FALSE]

add_message(tab, channel_id, msg, token_count) ==
    Append(tab, Row(channel_id, msg, token_count))

\* The row read back without its tool_call_id and name columns.
row_without_tool_columns(row) ==
    Message(row.role, row.content, row.size, row.tool_calls, NoId, "")

\* _row_to_message
row_to_message(row) ==
    Message(row.role, row.content, row.size, row.tool_calls,
            row.tool_call_id, row.name)

\* Ids of the rows of a channel, ORDER BY id ASC; with include_compacted
\* FALSE only those WHERE compacted = 0.
RowIds(tab, channel_id, include_compacted) ==
    LET F[i \in 0..Len(tab)] ==
            IF i = 0 THEN <<>>
            ELSE IF tab[i].channel_id = channel_id
                    /\ (include_compacted \/ ~tab[i].compacted)
                 THEN Append(F[i - 1], i)
                 ELSE F[i - 1]
    IN  F[Len(tab)]

get_message_ids(tab, channel_id) == RowIds(tab, channel_id, FALSE)

get_messages(tab, channel_id, include_compacted) ==
    LET ids == RowIds(tab, channel_id, include_compacted)
    IN  [k \in 1..Len(ids) |-> row_to_message(tab[ids[k]])]

RECURSIVE SumTokens(_, _)
SumTokens(tab, ids) ==
    IF ids = <<>> THEN 0
    ELSE tab[Head(ids)].token_count + SumTokens(tab, Tail(ids))

get_token_count(tab, channel_id) ==
    SumTokens(tab, RowIds(tab, channel_id, FALSE))

\* The rows UPDATE ... SET compacted = 1 of mark_compacted selects.
\* The rows of the UPDATE without the condition on the role.
MarkedIds_any_role(tab, channel_id, up_to_id) ==
    {i \in 1..Len(tab) :
        /\ tab[i].channel_id = channel_id
        /\ i <= up_to_id
        /\ ~tab[i].compacted}

MarkedIds(tab, channel_id, up_to_id) ==
    {i \in 1..Len(tab) :
        /\ tab[i].channel_id = channel_id
        /\ i <= up_to_id
        /\ ~tab[i].compacted
        /\ tab[i].role # "system"}

mark_compacted(tab, channel_id, up_to_id) ==
    [i \in 1..Len(tab) |->
        IF i \in MarkedIds(tab, channel_id, up_to_id)
        THEN [tab[i] EXCEPT !.compacted = TRUE]
        ELSE tab[i]]

\* ------------------------------------------------- sessions/compactor.py

\* messages[i] and message_ids[i] of the Python code: 0-based, and a
\* negative index counts from the end of the list.
py_index(seq, i) == IF i < 0 THEN seq[Len(seq) + i + 1] ELSE seq[i + 1]

\* messages[:k] of the Python code (k >= 0).
py_prefix(seq, k) == SubSeq(seq, 1, IF k < Len(seq) THEN k ELSE Len(seq))

\* for i in range(len(messages) - 1, -1, -1): the walk from the newest
\* message backward that stops before target_tokens would be exceeded.
RECURSIVE keep_walk(_, _, _, _)
keep_walk(view, i, keep_tokens, keep_from) ==
    IF i < 0 THEN keep_from
    ELSE LET msg_tokens == count_message_tokens(py_index(view, i))
         IN  IF keep_tokens + msg_tokens > target_tokens
             THEN keep_from
             ELSE keep_walk(view, i - 1, keep_tokens + msg_tokens, i)

\* keep_from = min(keep_from, len(messages) - 2)
keep_at_least(keep_from, n) ==
    IF keep_from < n - KeepLast THEN keep_from ELSE n - KeepLast

\* while split > 0 and messages[split].role == "tool": split -= 1
RECURSIVE walk_back(_, _)
walk_back(view, split) ==
    IF split > 0 /\ py_index(view, split).role = "tool"
    THEN walk_back(view, split - 1)
    ELSE split

\* The split point taken as it is, wherever it falls.
split_unadjusted(view, split) == split

_safe_split_point(view, split) ==
    IF split <= 0 \/ split >= Len(view) THEN split
    ELSE LET s == walk_back(view, split)
         IN  IF s <= 0 THEN 0 ELSE s

\* What the summarization call of _summarize comes to: the provider raises,
\* answers without text, or answers with a text of some token size.
SummaryResults ==
    {[kind |-> "raise", size |-> 0], [kind |-> "empty", size |-> 0]}
    \cup {[kind |-> "text", size |-> ShortSize]}

\* _summarize: the response's content, None when the provider raised.
_summarize(to_compact, llm) ==
    IF llm.kind = "text" THEN "summary" ELSE ""

\* The summary taken as it is, empty or not.
any_summary(summary) == FALSE

\* if not summary: return False
not_summary(summary) == summary = ""

NoCompaction(tab, called, keep0, keep_from) ==
    [ret |-> FALSE, tab |-> tab, called |-> called, keep0 |-> keep0,
     keep_from |-> keep_from, marked |-> 0]

\* Message(role="system", content=f"[Previous conversation summary]\n{summary}")
summary_message(llm) == Message("system", SummaryPrefix, llm.size, <<>>, NoId, "")

\* Compactor.check_and_compact(channel_id) on table tab, with llm what the
\* summarization call comes to if it is made.  ret is the return value, tab
\* the table afterwards, called whether the summarization call was made,
\* keep0 and keep_from the split point before and after _safe_split_point,
\* marked what mark_compacted returned.
check_and_compact(tab, channel_id, llm) ==
    LET current_tokens == get_token_count(tab, channel_id)
        view == get_messages(tab, channel_id, FALSE)
        n == Len(view)
        keep0 == keep_at_least(keep_walk(view, n - 1, 0, n), n)
        keep_from == _safe_split_point(view, keep0)
        to_compact == py_prefix(view, keep_from)
        summary == _summarize(to_compact, llm)
        message_ids == get_message_ids(tab, channel_id)
        compact_up_to == py_index(message_ids, keep_from - 1)
        marked == mark_compacted(tab, channel_id, compact_up_to)
        summary_msg == summary_message(llm)
        summary_tokens == count_message_tokens(summary_msg)
    IN  IF current_tokens <= max_context_tokens THEN NoCompaction(tab, FALSE, -1, -1)
        ELSE IF n < MinMessages THEN NoCompaction(tab, FALSE, -1, -1)
        ELSE IF keep0 <= 0 THEN NoCompaction(tab, FALSE, keep0, keep0)
        ELSE IF not_summary(summary) THEN NoCompaction(tab, TRUE, keep0, keep_from)
        ELSE IF keep_from > Len(message_ids) THEN NoCompaction(tab, TRUE, keep0, keep_from)
        ELSE [ret |-> TRUE,
              tab |-> add_message(marked, channel_id, summary_msg, summary_tokens),
              called |-> TRUE, keep0 |-> keep0, keep_from |-> keep_from,
              marked |-> Cardinality(MarkedIds(tab, channel_id, compact_up_to))]

\* ------------------------------------------------------- bot/client.py

\* What chain.chat comes to in one round of _run_agent_loop: the chain
\* raises ("error"), or answers with a text ("text"), a text holding one of
\* the continuation_signals ("cont"), or n tool calls ("tools").
Responses ==
    {[kind |-> "error", size |-> 0, n |-> 0]}
    \cup {[kind |-> k, size |-> ShortSize, n |-> 0] : k \in {"text", "cont"}}
    \cup {[kind |-> "tools", size |-> s, n |-> n] : s \in CallSizes, n \in 1..MaxToolCalls}

\* The id the provider gives the k-th tool call of the assistant message
\* that becomes row number row: fresh for every call.
CallId(row, k) == row * 10 + k

ToolCalls(row, n) ==
    [k \in 1..n |-> [id |-> CallId(row, k),
                     name |-> ToolNames[((k - 1) % Len(ToolNames)) + 1]]]

\* response.message
assistant_message(resp, row) ==
    Message("assistant", resp.kind, resp.size,
            IF resp.kind = "tools" THEN ToolCalls(row, resp.n) ELSE <<>>, NoId, "")

\* any(sig in content for sig in continuation_signals)
is_continuation(msg) == msg.content = "cont"

\* The tool result stored without the name of the tool.
tool_message_unnamed(tc, size) == Message("tool", "result", size, <<>>, tc.id, "")

\* Message(role="tool", content=result, tool_call_id=tc.id, name=tc.name)
tool_message(tc, size) == Message("tool", "result", size, <<>>, tc.id, tc.name)

nudge_message == Message("user", NudgeText, NudgeSize, <<>>, NoId, "")

Idle ==
    [pc |-> "none", ch |-> "", round_num |-> 0, calls |-> <<>>, tci |-> 0,
     llm_calls |-> 0, final_text |-> "", log |-> <<>>, dropped |-> FALSE]

NoCall ==
    [ch |-> "", pre |-> <<>>, post |-> <<>>, ret |-> FALSE, called |-> FALSE,
     keep0 |-> -1, keep_from |-> -1, marked |-> 0, summ |-> "", retry |-> FALSE]

Ev(ev, id) == [ev |-> ev, id |-> id]

Init ==
    /\ messages = <<>>
    /\ processing = {}
    /\ h = [t \in Tasks |-> Idle]
    /\ cc = NoCall
    /\ appended = [c \in Channels |-> <<>>]
    /\ last_failed = {}
    /\ \/ channels = {"c1"} /\ max_rows = MaxRows /\ compaction_enabled = TRUE
       \/ channels = Channels /\ max_rows = MaxRowsShared /\ compaction_enabled = FALSE
    /\ ComponentsIdle

\* The gate left out: every message is admitted.
AdmittedAlways(channel_id) == TRUE

\* on_message line 294: if channel_id in self._processing: return
Admitted(channel_id) == channel_id \notin processing

\* The coroutine slot a newly admitted message runs in.
FreeTask == CHOOSE t \in Tasks : h[t].pc = "none" /\ \A u \in Tasks : h[u].pc = "none" => t <= u

\* on_message lines 292-309, for an inbound message that passed the filters
\* of lines 251-290, up to its first await.  A message for a channel in
\* _processing is dropped.  Otherwise the channel is added and _handle_message
\* runs: on an empty text it returns at once and the finally clause discards
\* the channel again; else it goes on to store the user message.
OnMessage(channel_id, empty) ==
    /\ channel_id \in channels
    /\ IF ~Admitted(channel_id)
       THEN /\ h' = [t \in Tasks |->
                        IF h[t].pc # "none" /\ h[t].ch = channel_id
                        THEN [h[t] EXCEPT !.dropped = TRUE] ELSE h[t]]
            /\ UNCHANGED processing
       ELSE IF empty
       THEN /\ processing' = (processing \cup {channel_id}) \ {channel_id}
            /\ UNCHANGED h
       ELSE /\ \E t \in Tasks : h[t].pc = "none"
            /\ processing' = processing \cup {channel_id}
            /\ h' = [h EXCEPT ![FreeTask] = [Idle EXCEPT !.pc = "handle", !.ch = channel_id]]
    /\ UNCHANGED <<messages, compaction_enabled, cc, appended, last_failed, channels,
                   max_rows,
                   component_vars>>

\* _handle_message lines 372-375: the user message is stored.
HandleMessage(t, size) ==
    LET user_msg == Message("user", "text", size, <<>>, NoId, "")
        user_tokens == count_message_tokens(user_msg)
    IN
    /\ h[t].pc = "handle"
    /\ Len(messages) < max_rows
    /\ messages' = add_message(messages, h[t].ch, user_msg, user_tokens)
    /\ appended' = [appended EXCEPT ![h[t].ch] = Append(@, user_msg)]
    /\ h' = [h EXCEPT ![t].pc = IF compaction_enabled THEN "compact" ELSE "llm",
                      ![t].log = Append(@, Ev("persist", Len(messages) + 1))]
    /\ UNCHANGED <<processing, compaction_enabled, cc, last_failed, channels,
                   max_rows,
                   component_vars>>

\* _handle_message lines 378-379: await self.compactor.check_and_compact
Compact(t, llm) ==
    LET channel_id == h[t].ch
        r == check_and_compact(messages, channel_id, llm)
    IN
    /\ h[t].pc = "compact"
    /\ Len(messages) < max_rows
    /\ messages' = r.tab
    /\ appended' = IF r.ret
                   THEN [appended EXCEPT ![channel_id] =
                            Append(@, summary_message(llm))]
                   ELSE appended
    /\ cc' = [ch |-> channel_id, pre |-> messages, post |-> r.tab, ret |-> r.ret,
              called |-> r.called, keep0 |-> r.keep0, keep_from |-> r.keep_from,
              marked |-> r.marked,
              summ |-> IF r.called THEN llm.kind ELSE "",
              retry |-> channel_id \in last_failed]
    /\ last_failed' = IF r.called /\ llm.kind # "text"
                      THEN last_failed \cup {channel_id}
                      ELSE last_failed \ {channel_id}
    /\ h' = [h EXCEPT ![t].pc = "llm",
                      ![t].log = IF r.ret THEN Append(@, Ev("summary", Len(r.tab))) ELSE @]
    /\ UNCHANGED <<processing, compaction_enabled, channels, max_rows,
                   component_vars>>

\* The round ends and the loop goes on with no count of the rounds.
SameRound(hm) == [hm EXCEPT !.pc = "llm", !.calls = <<>>, !.tci = 0]

\* The end of a round of _run_agent_loop: the for loop runs out after
\* MAX_TOOL_ROUNDS rounds and the notice is returned.
NextRound(hm) ==
    IF hm.round_num + 1 >= MAX_TOOL_ROUNDS
    THEN [hm EXCEPT !.round_num = @ + 1, !.pc = "send", !.final_text = MaxRoundsNotice,
                    !.calls = <<>>, !.tci = 0]
    ELSE [hm EXCEPT !.round_num = @ + 1, !.pc = "llm", !.calls = <<>>, !.tci = 0]

\* The nudge is injected on a text-only answer with continuation intent,
\* but not in the last two rounds (line 441).
Nudged(msg, round_num) == is_continuation(msg) /\ round_num < MAX_TOOL_ROUNDS - 2

\* _run_agent_loop lines 409-455: one chain.chat call and what follows it up
\* to the first tool call (or the return).
LLMCall(t, resp) ==
    LET channel_id == h[t].ch
        row == Len(messages) + 1
        assistant_msg == assistant_message(resp, row)
        assistant_tokens == count_message_tokens(assistant_msg)
        called == [h[t] EXCEPT !.llm_calls = @ + 1, !.log = Append(@, Ev("llm", 0))]
        stored == [called EXCEPT !.log = Append(@, Ev("persist", row))]
    IN
    /\ h[t].pc = "llm"
    /\ IF resp.kind = "error"
       THEN \* except Exception: return f"LLM error: {e}"
            /\ h' = [h EXCEPT ![t] = [called EXCEPT !.pc = "send", !.final_text = "LLM error"]]
            /\ UNCHANGED <<messages, appended>>
       ELSE IF has_tool_calls(assistant_msg)
       THEN /\ Len(messages) < max_rows
            /\ messages' = add_message(messages, channel_id, assistant_msg, assistant_tokens)
            /\ appended' = [appended EXCEPT ![channel_id] = Append(@, assistant_msg)]
            /\ h' = [h EXCEPT ![t] = [stored EXCEPT !.pc = "tools",
                                                    !.calls = assistant_msg.tool_calls,
                                                    !.tci = 1]]
       ELSE IF Nudged(assistant_msg, h[t].round_num)
       THEN /\ Len(messages) + 1 < max_rows
            /\ messages' = add_message(
                               add_message(messages, channel_id, assistant_msg, assistant_tokens),
                               channel_id, nudge_message, NudgeTokenCount)
            /\ appended' = [appended EXCEPT ![channel_id] =
                               Append(Append(@, assistant_msg), nudge_message)]
            /\ h' = [h EXCEPT ![t] = NextRound([stored EXCEPT
                                          !.log = Append(@, Ev("persist", row + 1))])]
       ELSE /\ Len(messages) < max_rows
            /\ messages' = add_message(messages, channel_id, assistant_msg, assistant_tokens)
            /\ appended' = [appended EXCEPT ![channel_id] = Append(@, assistant_msg)]
            /\ h' = [h EXCEPT ![t] = [stored EXCEPT !.pc = "send",
                                                    !.final_text = assistant_msg.content]]
    /\ UNCHANGED <<processing, compaction_enabled, cc, last_failed, channels, max_rows,
                   component_vars>>

\* _run_agent_loop lines 457-471: one iteration of
\* for tc in assistant_msg.tool_calls.
ToolStep(t, size) ==
    LET channel_id == h[t].ch
        tc == h[t].calls[h[t].tci]
        tool_msg == tool_message(tc, size)
        tool_tokens == count_message_tokens(tool_msg)
        done == [h[t] EXCEPT !.log = Append(Append(@, Ev("exec", tc.id)),
                                            Ev("persist", Len(messages) + 1))]
    IN
    /\ h[t].pc = "tools"
    /\ Len(messages) < max_rows
    /\ messages' = add_message(messages, channel_id, tool_msg, tool_tokens)
    /\ appended' = [appended EXCEPT ![channel_id] = Append(@, tool_msg)]
    /\ h' = [h EXCEPT ![t] = IF h[t].tci < Len(h[t].calls)
                             THEN [done EXCEPT !.tci = @ + 1]
                             ELSE NextRound(done)]
    /\ UNCHANGED <<processing, compaction_enabled, cc, last_failed, channels, max_rows,
                   component_vars>>

\* _handle_message lines 387-392 and on_message lines 308-309: the reply (when
\* there is a text), the report-back, and then, with no await in between,
\* finally: self._processing.discard(channel_id).  The log of the turn ends.
SendResponse(t) ==
    /\ h[t].pc = "send"
    /\ processing' = processing \ {h[t].ch}
    /\ h' = [h EXCEPT ![t] = Idle]
    /\ UNCHANGED <<messages, compaction_enabled, cc, appended, last_failed,
                   channels, max_rows,
                   component_vars>>

Next ==
    \/ \E c \in Channels, empty \in BOOLEAN : OnMessage(c, empty)
    \/ \E t \in Tasks, size \in UserSizes : HandleMessage(t, size)
    \/ \E t \in Tasks, llm \in SummaryResults : Compact(t, llm)
    \/ \E t \in Tasks, resp \in Responses : LLMCall(t, resp)
    \/ \E t \in Tasks : ToolStep(t, ShortSize)
    \/ \E t \in Tasks : SendResponse(t)

Spec == Init /\ [][Next]_vars

\* =====================================================================
\* Properties
\* =====================================================================

Active(t) == h[t].pc # "none"

\* The coroutines running a turn for a channel.
TasksOn(c) == {t \in Tasks : Active(t) /\ h[t].ch = c}

\* C1: at most one orchestrator turn is in progress per location; a message
\* arriving for a location in the in-progress set is dropped: the step
\* persists nothing, starts no coroutine and makes no LLM call; turns for
\* different locations run concurrently.
C1_OneTurnPerLocation ==
    /\ [](/\ \A c \in Channels : Cardinality(TasksOn(c)) <= 1
          /\ processing = {h[t].ch : t \in {u \in Tasks : Active(u)}})
    /\ [][\A t \in Tasks :
            (Active(t) /\ ~h[t].dropped /\ h'[t].dropped)
            => /\ messages' = messages
               /\ processing' = processing
               /\ \A u \in Tasks : h'[u] = [h[u] EXCEPT !.dropped = h'[u].dropped]]_vars

\* Two turns for different locations are in progress and a message for one
\* of them has been dropped.
C1_Witness ==
    \E t, u \in Tasks :
        /\ Active(t) /\ Active(u) /\ h[t].ch # h[u].ch
        /\ h[t].dropped /\ h[t].llm_calls > 0 /\ h[u].llm_calls > 0

\* The tool calls of view[q] that the turn in progress on channel c has
\* still to execute: view[q] is the last assistant message of the view and
\* the results of the calls before number tci follow it.
Pending(c, view, q) ==
    IF \E t \in TasksOn(c) : /\ h[t].pc = "tools"
                             /\ h[t].calls = view[q].tool_calls
                             /\ q + h[t].tci - 1 = Len(view)
    THEN {k \in 1..Len(view[q].tool_calls) : q + k > Len(view)}
    ELSE {}

\* The tool message at p is the result of call number k of the assistant
\* message at q, with nothing but the results of the calls before it between.
PairedAt(view, q, k, p) ==
    /\ p = q + k
    /\ p <= Len(view)
    /\ view[q].role = "assistant"
    /\ k \in 1..Len(view[q].tool_calls)
    /\ view[p].role = "tool"
    /\ view[p].tool_call_id = view[q].tool_calls[k].id

PairsIntact(c, view) ==
    /\ \A p \in 1..Len(view) :
          view[p].role = "tool"
          => \E q \in 1..(p - 1) : PairedAt(view, q, p - q, p)
    /\ \A q \in 1..Len(view) :
          view[q].role = "assistant"
          => \A k \in 1..Len(view[q].tool_calls) :
                PairedAt(view, q, k, q + k) \/ k \in Pending(c, view, q)

\* C2: in the non-compacted view of every channel, every tool message has its
\* tool_call_id on an earlier assistant message of the view, and every
\* assistant message with N tool calls is followed, before any further
\* assistant message, by the N matching tool messages (those the turn in
\* progress has yet to execute excepted).
C2_PairsNeverSplit ==
    \A c \in Channels : PairsIntact(c, get_messages(messages, c, FALSE))

\* A compaction whose split point fell on a tool result and was moved back to
\* the assistant message that issued the call.
C2_Witness ==
    /\ cc.ret
    /\ messages = cc.post
    /\ 0 < cc.keep_from /\ cc.keep_from < cc.keep0
    /\ \E m \in {get_messages(messages, cc.ch, FALSE)} :
          \E p \in 1..Len(m) : m[p].role = "tool"

\* The latest check_and_compact call performed a compaction.
Performed == cc.ret

PreSum == get_token_count(cc.pre, cc.ch)
PostSum == get_token_count(cc.post, cc.ch)
PreView == get_messages(cc.pre, cc.ch, FALSE)
PostView == get_messages(cc.post, cc.ch, FALSE)
PreIds == get_message_ids(cc.pre, cc.ch)

\* C3: a compaction performed because the non-compacted token sum of the
\* channel exceeded max_context_tokens leaves the non-compacted token sum,
\* the appended summary included, at most max_context_tokens.
C3_PostSumWithinMax ==
    (Performed /\ PreSum > max_context_tokens) => PostSum <= max_context_tokens

\* C4: a performed compaction removes exactly the first keep_from messages of
\* the non-compacted view: the view without the appended summary is shorter
\* by keep_from, and every message at index keep_from or later is still
\* non-compacted with its content unchanged.
C4_RemovesFirstKeepFrom ==
    Performed =>
        /\ Len(PreView) - (Len(PostView) - 1) = cc.keep_from
        /\ \A i \in (cc.keep_from + 1)..Len(PreView) :
              /\ ~cc.post[PreIds[i]].compacted
              /\ row_to_message(cc.post[PreIds[i]]) = PreView[i]

\* The summarization call of the latest check_and_compact call, if made,
\* returned a text.
WorkingSummarizer == cc.summ \notin {"raise", "empty"}

\* C5: with compaction enabled and a working summarizer, a turn that starts
\* with the non-compacted token sum of its channel above max_context_tokens
\* compacts, and the sum is at most max_context_tokens afterwards.
C5_BackUnderLimitWithinTurn ==
    (compaction_enabled /\ cc.ch # "" /\ WorkingSummarizer
        /\ PreSum > max_context_tokens)
    => (Performed /\ PostSum <= max_context_tokens)

\* C6: when the summarization call raises or returns no text,
\* check_and_compact returns false and the table is as before (nothing
\* marked, no summary appended); and the call made for the next inbound
\* message of the channel reaches the summarization call again.
C6_FailedSummaryLeavesStore ==
    /\ (cc.called /\ ~WorkingSummarizer)
       => (~cc.ret /\ cc.post = cc.pre /\ cc.marked = 0 /\ cc.ch \in last_failed)
    /\ cc.retry => cc.called

\* A summarization call failed on the retry that followed a failed one.
C6_Witness ==
    /\ cc.called /\ cc.retry /\ cc.summ = "raise"
    /\ messages = cc.post

\* C7: after a performed compaction a second check_and_compact call on the
\* same channel, nothing appended in between, returns false and leaves the
\* table as it is, whatever the summarization call would return.
C7_SecondCallNoOp ==
    Performed =>
        \A llm \in SummaryResults :
            LET again == check_and_compact(cc.post, cc.ch, llm)
            IN  ~again.ret /\ again.tab = cc.post /\ again.marked = 0

\* C8: for every channel, the messages read back from the table (compacted
\* ones included) are exactly the messages passed to add_message for that
\* channel, with their fields unchanged and in the order of the calls,
\* however the calls for other channels were interleaved; the default view
\* is the same list while nothing is compacted; and the row ids of the
\* channel increase strictly in that order.
C8_PersistThenLoad ==
    \A c \in Channels :
        LET ids == RowIds(messages, c, TRUE)
        IN  /\ get_messages(messages, c, TRUE) = appended[c]
            /\ (\A k \in 1..Len(ids) : ~messages[ids[k]].compacted)
               => get_messages(messages, c, FALSE) = appended[c]
            /\ Len(ids) = Len(appended[c])
            /\ \A k \in 1..Len(ids) :
                  /\ messages[ids[k]].channel_id = c
                  /\ \A l \in (k + 1)..Len(ids) : ids[k] < ids[l]
            /\ \A i \in 1..Len(messages) :
                  messages[i].channel_id = c => \E k \in 1..Len(ids) : ids[k] = i

\* The appends of two channels interleaved: a row of one channel lies
\* between two rows of the other, one of them a tool result.
C8_Witness ==
    \E i, j, k \in 1..Len(messages) :
        /\ i < j /\ j < k
        /\ messages[i].channel_id = messages[k].channel_id
        /\ messages[j].channel_id # messages[i].channel_id
        /\ messages[k].role = "tool"

\* Event i of log L is the storing of a message of the given role.
Stored(L, i, role) ==
    /\ i \in 1..Len(L)
    /\ L[i].ev = "persist"
    /\ messages[L[i].id].role = role

\* Events i + 2k - 1 and i + 2k of log L are the execution of call number k
\* of the assistant message stored at event i and the storing of its result.
CallDone(L, i, k, ch) ==
    LET tc == messages[L[i].id].tool_calls[k]
        e == i + 2 * k - 1
    IN  /\ e + 1 <= Len(L)
        /\ L[e] = Ev("exec", tc.id)
        /\ Stored(L, e + 1, "tool")
        /\ messages[L[e + 1].id].tool_call_id = tc.id
        /\ messages[L[e + 1].id].name = tc.name
        /\ messages[L[e + 1].id].channel_id = ch

\* The calls of the assistant message stored at event i that are done when
\* the log has grown to length n.
CallsDoneBy(L, i, n, ch) ==
    \A k \in 1..Len(messages[L[i].id].tool_calls) : i + 2 * k <= n /\ CallDone(L, i, k, ch)

TurnOrder(t) ==
    LET L == h[t].log
        ch == h[t].ch
    IN  /\ L # <<>> => /\ Stored(L, 1, "user")
                       /\ messages[L[1].id].content = "text"
                       /\ messages[L[1].id].channel_id = ch
        /\ \A i \in 1..Len(L) :
              /\ L[i].ev = "llm"
                 => /\ i > 1
                    /\ \A j \in 1..(i - 1) :
                          Stored(L, j, "assistant") => CallsDoneBy(L, j, i - 1, ch)
              /\ Stored(L, i, "assistant")
                 => /\ i > 1 /\ L[i - 1].ev = "llm"
                    /\ h[t].pc # "tools" => CallsDoneBy(L, i, Len(L), ch)
                    /\ \A k \in 1..Len(messages[L[i].id].tool_calls) :
                          i + 2 * k <= Len(L) => CallDone(L, i, k, ch)
              /\ Stored(L, i, "tool")
                 => i > 1 /\ L[i - 1] = Ev("exec", messages[L[i].id].tool_call_id)
              /\ L[i].ev = "exec"
                 => /\ Stored(L, i + 1, "tool")
                    /\ \E j \in 1..(i - 1) :
                          /\ Stored(L, j, "assistant")
                          /\ \E k \in 1..Len(messages[L[j].id].tool_calls) :
                                i = j + 2 * k - 1 /\ CallDone(L, j, k, ch)
                    /\ \A j \in 1..Len(L) : (j # i /\ L[j].ev = "exec") => L[j].id # L[i].id

LogKinds(L) == [i \in 1..Len(L) |-> L[i].ev]

\* The turn of task t was one tool round followed by a text answer.
OneToolRound(t) ==
    /\ h[t].pc = "send"
    /\ LogKinds(h[t].log) =
          <<"persist", "llm", "persist", "exec", "persist", "llm", "persist">>

Roles(view) == [i \in 1..Len(view) |-> view[i].role]

\* C9: within a turn the user message is stored first; in each round the
\* assistant message is stored and then, for each of its tool calls in order,
\* the executor is invoked once and one tool message with the call's id and
\* name is stored, all before the next LLM call.  After one tool round and a
\* text answer on a new session the session holds user, assistant with the
\* tool call, tool, assistant, in that order.
C9_TurnOrder ==
    \A t \in Tasks :
        Active(t) =>
            /\ TurnOrder(t)
            /\ (OneToolRound(t) /\ RowIds(messages, h[t].ch, TRUE)[1] = h[t].log[1].id)
               => LET view == get_messages(messages, h[t].ch, FALSE)
                  IN  /\ Roles(view) = <<"user", "assistant", "tool", "assistant">>
                      /\ Len(view[2].tool_calls) = 1
                      /\ view[3].tool_call_id = view[2].tool_calls[1].id
                      /\ view[3].name = view[2].tool_calls[1].name
                      /\ view[4].tool_calls = <<>>

\* A turn on a new session ends after one tool round and a text answer.
C9_Witness ==
    \E t \in Tasks :
        /\ OneToolRound(t)
        /\ RowIds(messages, h[t].ch, TRUE)[1] = h[t].log[1].id

\* The steps a turn in state hm can take at most before it has ended: the
\* rounds left, each an LLM call and at most MaxToolCalls tool calls, and the
\* step that sends the response.
StepsLeft(hm) ==
    LET round == MaxToolCalls + 1
        rounds_left == MAX_TOOL_ROUNDS - hm.round_num
    IN  CASE hm.pc = "none" -> 0
          [] hm.pc = "send" -> 1
          [] hm.pc = "tools" -> rounds_left * round - hm.tci + 1
          [] hm.pc = "llm" -> rounds_left * round + 1
          [] hm.pc = "compact" -> MAX_TOOL_ROUNDS * round + 2
          [] hm.pc = "handle" -> MAX_TOOL_ROUNDS * round + 3

\* Task t takes a step of its turn (a dropped message is no step of it).
TurnStep(t) == Active(t) /\ h'[t] # [h[t] EXCEPT !.dropped = h'[t].dropped]

MaxRowsFaults == 5

\* What an awaited call of a turn may raise besides the errors the callee
\* handles itself: a storage error (sqlite3.Error out of SessionStore), an
\* error out of channel.typing(), an error other than discord.HTTPException
\* out of _send_response.  All are subclasses of Exception.
Faults == {"storage", "typing", "delivery"}

\* The faults the await at position pc may raise.
RaisedAt(pc) ==
    CASE pc \in {"handle", "compact", "tools"} -> {"storage"}
      [] pc = "llm" -> {"storage", "typing"}
      [] pc = "send" -> {"delivery"}
      [] OTHER -> {}

\* A handler that catches the errors of the chat platform only.
except_http_only(fault) == fault = "delivery"

\* on_message line 302: except Exception as e
except_Exception(fault) == fault \in Faults

\* An await of the turn of task t raises.  on_message catches it, logs it
\* (line 303) and goes on to the error reply; an exception it does not
\* catch passes the finally clause and leaves on_message.
Raise(t, fault) ==
    /\ Active(t)
    /\ fault \in RaisedAt(h[t].pc)
    /\ IF except_Exception(fault)
       THEN /\ h' = [h EXCEPT ![t].pc = "except", ![t].final_text = fault]
            /\ UNCHANGED processing
       ELSE /\ h' = [h EXCEPT ![t].pc = "escaped", ![t].final_text = fault]
            /\ processing' = processing \ {h[t].ch}
    /\ UNCHANGED <<messages, compaction_enabled, cc, appended, last_failed,
                   channels, max_rows, component_vars>>

\* The error reply without the finally clause after it.
ErrorReplyKeepsMark(t, delivered) ==
    /\ h[t].pc = "except"
    /\ h' = [h EXCEPT ![t] = Idle]
    /\ UNCHANGED <<messages, processing, compaction_enabled, cc, appended, last_failed,
                   channels, max_rows, component_vars>>

\* on_message lines 304-309: message.reply("Something went wrong: ..."),
\* whose own failure is passed over, and then the finally clause.
ErrorReply(t, delivered) ==
    /\ h[t].pc = "except"
    /\ processing' = processing \ {h[t].ch}
    /\ h' = [h EXCEPT ![t] = Idle]
    /\ UNCHANGED <<messages, compaction_enabled, cc, appended, last_failed,
                   channels, max_rows, component_vars>>

InitFaults ==
    /\ messages = <<>>
    /\ processing = {}
    /\ h = [t \in Tasks |-> Idle]
    /\ cc = NoCall
    /\ appended = [c \in Channels |-> <<>>]
    /\ last_failed = {}
    /\ channels = {"c1"} /\ max_rows = MaxRowsFaults /\ compaction_enabled = TRUE
    /\ ComponentsIdle

NextFaults ==
    \/ \E c \in Channels, empty \in BOOLEAN : OnMessage(c, empty)
    \/ \E t \in Tasks, size \in UserSizes : HandleMessage(t, size)
    \/ \E t \in Tasks, llm \in SummaryResults : Compact(t, llm)
    \/ \E t \in Tasks, resp \in Responses : LLMCall(t, resp)
    \/ \E t \in Tasks : ToolStep(t, ShortSize)
    \/ \E t \in Tasks : SendResponse(t)
    \/ \E t \in Tasks, fault \in Faults : Raise(t, fault)
    \/ \E t \in Tasks, delivered \in BOOLEAN : ErrorReply(t, delivered)

SpecFaults == InitFaults /\ [][NextFaults]_vars

\* C11: no exception raised while an admitted message is handled leaves
\* on_message: a turn ends either by the step that sends the response (the
\* LLM error text included) or, after an exception, by the step that tries
\* the error reply; either way its channel leaves _processing.
C11_NoExceptionEscapes ==
    /\ [](\A t \in Tasks : h[t].pc # "escaped")
    /\ [][\A t \in Tasks :
            /\ (Active(t) /\ h[t].pc # "except" /\ h'[t].pc = "except")
               => (h'[t].final_text \in RaisedAt(h[t].pc) /\ processing' = processing)
            /\ (Active(t) /\ ~Active(t)')
               => /\ h[t].pc \in {"send", "except"}
                  /\ h[t].ch \notin processing']_vars

\* A storage error raised in the tool loop, after a tool call was run, was
\* caught by on_message: the error reply is due and the location is still
\* marked as in progress.
C11_Witness ==
    \E t \in Tasks :
        /\ h[t].pc = "except"
        /\ h[t].final_text = "storage"
        /\ h[t].tci > 0
        /\ h[t].ch \in processing

\* =====================================================================
\* ProviderChain.chat (models/base.py 181-262)
\* =====================================================================

\* The orchestrator at rest, in the runs that exercise one component only.
OrchestratorIdle ==
    /\ messages = <<>>
    /\ processing = {}
    /\ h = [t \in Tasks |-> Idle]
    /\ cc = NoCall
    /\ appended = [c \in Channels |-> <<>>]
    /\ last_failed = {}
    /\ channels = {}
    /\ max_rows = 0
    /\ compaction_enabled = FALSE

\* The largest max_retries of a chain (ProviderChain.__init__ defaults to 2).
MaxRetries == 2

\* The chains of the runs: the configured primary models, the fallback
\* providers with their model lists, and max_retries.
PrimaryModels == {<<"m1">>, <<"m1", "m2">>}
FallbackProviders ==
    {<<>>,
     <<[provider |-> "ollama", models |-> <<"f1">>]>>,
     <<[provider |-> "ollama", models |-> <<"f1", "f2">>],
       [provider |-> "backup", models |-> <<"g1">>]>>}
\* The model argument of chat: None (""), a model of its own, or one that is
\* also configured.
RequestedModels == {"", "m0", "m1"}

NoError == 0

\* The values of retry_delay of the runs, in seconds (1.0 by default), and
\* what an attempt comes to: a response, an error that
\* _is_rate_limit_error takes for a rate limit, another error.
RetryDelays == {1, 8}
AttemptOutcomes == {"return", "rate limit", "error"}

ChainAtRest(models, fallback_providers, max_retries, retry_delay) ==
    [models |-> models, fallback_providers |-> fallback_providers,
     max_retries |-> max_retries, retry_delay |-> retry_delay,
     pc |-> "idle", model |-> "",
     i |-> 0, fb |-> 0, fbm |-> 0, attempt |-> 0,
     log |-> <<>>, last_error |-> NoError, response |-> <<>>]

\* The requested model left out of the models to try.
configured_only(model, models) == models

\* models_to_try = [model] + self.models if model else self.models
models_to_try(model, models) == IF model # "" THEN <<model>> \o models ELSE models

\* The loop position of chat from which the next attempt is made, starting
\* at the candidate position c: a for loop that has run out gives way to the
\* next iteration of the loop around it, the primary loops to the fallback
\* loops, and the fallback loops to the raise of line 260.
RECURSIVE LoopPosition(_)
LoopPosition(c) ==
    IF c.pc = "primary"
    THEN IF c.i >= Len(models_to_try(c.model, c.models))
         THEN LoopPosition([c EXCEPT !.pc = "fallback", !.fb = 0, !.fbm = 0, !.attempt = 0])
         ELSE IF c.attempt >= c.max_retries
         THEN LoopPosition([c EXCEPT !.i = @ + 1, !.attempt = 0])
         ELSE c
    ELSE IF c.fb >= Len(c.fallback_providers)
         THEN [c EXCEPT !.pc = "raised"]
         ELSE IF c.fbm >= Len(c.fallback_providers[c.fb + 1].models)
         THEN LoopPosition([c EXCEPT !.fb = @ + 1, !.fbm = 0, !.attempt = 0])
         ELSE IF c.attempt >= c.max_retries
         THEN LoopPosition([c EXCEPT !.fbm = @ + 1, !.attempt = 0])
         ELSE c

\* min(a, b)
py_min(a, b) == IF a <= b THEN a ELSE b

\* The seconds slept after a failed attempt on a fallback model, lines
\* 255-258: retry_delay * (attempt + 1) before a retry, nothing after the last
\* attempt, whatever the error.
fallback_sleep(retry_delay, attempt, max_retries, is_rate_limit) ==
    IF attempt < max_retries - 1 THEN retry_delay * (attempt + 1) ELSE 0

\* A wait after a failed attempt that ignores the kind of the error.
primary_sleep_linear(retry_delay, attempt, max_retries, is_rate_limit) ==
    IF attempt < max_retries - 1 THEN retry_delay * (attempt + 1) ELSE 0

\* The seconds slept after a failed attempt on a primary model, lines
\* 217-240.
primary_sleep(retry_delay, attempt, max_retries, is_rate_limit) ==
    IF attempt < max_retries - 1
    THEN IF is_rate_limit
         THEN py_min(retry_delay * (2 ^ (attempt + 2)), 30)
         ELSE retry_delay * (attempt + 1)
    ELSE IF is_rate_limit THEN 5 ELSE 0

\* The provider and the model of the attempt at loop position c.
AttemptTarget(c) ==
    IF c.pc = "primary"
    THEN [provider |-> "primary", model |-> py_index(models_to_try(c.model, c.models), c.i)]
    ELSE [provider |-> c.fallback_providers[c.fb + 1].provider,
          model |-> py_index(c.fallback_providers[c.fb + 1].models, c.fbm)]

\* chat(messages, model=model) is called.
ChainChat(model) ==
    /\ chain.pc = "idle"
    /\ chain' = LoopPosition([chain EXCEPT !.pc = "primary", !.model = model,
                                           !.i = 0, !.attempt = 0, !.log = <<>>,
                                           !.last_error = NoError, !.response = <<>>])
    /\ UNCHANGED <<orchestrator_vars, cron_vars, agent_vars,
                   function_vars>>

\* One provider.chat call of lines 208-212 or 247-252: it returns and its
\* response is returned, or it raises error number Len(log) + 1 and, after
\* the sleep of lines 217-240 or 255-258, the loops go on.
ChainAttempt(outcome) ==
    LET target == AttemptTarget(chain)
        n == Len(chain.log) + 1
        ok == outcome = "return"
        is_rate_limit == outcome = "rate limit"
        slept == IF ok THEN 0
                 ELSE IF chain.pc = "primary"
                 THEN primary_sleep(chain.retry_delay, chain.attempt, chain.max_retries,
                                    is_rate_limit)
                 ELSE fallback_sleep(chain.retry_delay, chain.attempt, chain.max_retries,
                                     is_rate_limit)
        tried == [chain EXCEPT !.log = Append(@, [provider |-> target.provider,
                                                  model |-> target.model, ok |-> ok,
                                                  attempt |-> chain.attempt,
                                                  error |-> IF ok THEN "" ELSE outcome,
                                                  slept |-> slept])]
    IN
    /\ chain.pc \in {"primary", "fallback"}
    /\ chain' = IF ok
                THEN [tried EXCEPT !.pc = "returned",
                                   !.response = <<[provider |-> target.provider,
                                                   model |-> target.model, call |-> n]>>]
                ELSE LoopPosition([tried EXCEPT !.last_error = n, !.attempt = @ + 1])
    /\ UNCHANGED <<orchestrator_vars, cron_vars, agent_vars,
                   function_vars>>

\* The caller has the response or the RuntimeError; the chain is at rest.
ChainDone ==
    /\ chain.pc \in {"returned", "raised"}
    /\ chain' = ChainAtRest(chain.models, chain.fallback_providers, chain.max_retries,
                             chain.retry_delay)
    /\ UNCHANGED <<orchestrator_vars, cron_vars, agent_vars,
                   function_vars>>

InitChain ==
    /\ OrchestratorIdle
    /\ FunctionsIdle
    /\ CronIdle
    /\ AgentsIdle
    /\ \E models \in PrimaryModels, fallback_providers \in FallbackProviders,
          max_retries \in 0..MaxRetries, retry_delay \in RetryDelays :
          chain = ChainAtRest(models, fallback_providers, max_retries, retry_delay)

NextChain ==
    \/ \E model \in RequestedModels : ChainChat(model)
    \/ \E outcome \in AttemptOutcomes : ChainAttempt(outcome)
    \/ ChainDone

SpecChain == InitChain /\ [][NextChain]_vars

RECURSIVE Repeat(_, _)
Repeat(x, n) == IF n <= 0 THEN <<>> ELSE <<x>> \o Repeat(x, n - 1)

RECURSIVE Flatten(_)
Flatten(seqs) == IF seqs = <<>> THEN <<>> ELSE Head(seqs) \o Flatten(Tail(seqs))

\* The attempts a chat call makes when all of them fail: the requested model
\* if any, the configured primary models, the models of each fallback
\* provider, in this order, each max_retries times.
AttemptPlan(c) ==
    LET requested == IF c.model # "" THEN <<c.model>> ELSE <<>>
        primary == [k \in 1..Len(requested \o c.models) |->
                       [provider |-> "primary", model |-> (requested \o c.models)[k]]]
        fallback == Flatten([p \in 1..Len(c.fallback_providers) |->
                       [k \in 1..Len(c.fallback_providers[p].models) |->
                           [provider |-> c.fallback_providers[p].provider,
                            model |-> c.fallback_providers[p].models[k]]]])
        targets == primary \o fallback
    IN  Flatten([k \in 1..Len(targets) |-> Repeat(targets[k], c.max_retries)])

\* C12: the attempts of a chat call are, in order, a prefix of: the requested
\* model, each primary model, each model of each fallback provider, each
\* max_retries times; all attempts but a last successful one failed; the call
\* returns the response of the first successful attempt and makes no attempt
\* after it; and it raises, with the last error, only when all attempts of
\* the plan were made and failed.
C12_ChainOrder ==
    /\ [](chain.pc # "idle" =>
            LET plan == AttemptPlan(chain)
                n == Len(chain.log)
            IN  /\ n <= Len(plan)
                /\ \A k \in 1..n :
                      /\ chain.log[k].provider = plan[k].provider
                      /\ chain.log[k].model = plan[k].model
                      /\ chain.log[k].ok <=> (k = n /\ chain.pc = "returned")
                /\ chain.pc = "returned"
                   => /\ n > 0
                      /\ chain.response = <<[provider |-> plan[n].provider,
                                             model |-> plan[n].model, call |-> n]>>
                /\ chain.pc = "raised" => (n = Len(plan) /\ chain.last_error = n)
                /\ chain.pc \in {"primary", "fallback"} => n < Len(plan))
    /\ [][chain.pc \in {"returned", "raised"} => chain'.pc = "idle"]_vars

\* A call with a requested model is answered by the second fallback provider
\* after every attempt before it failed.
C12_Witness ==
    /\ chain.pc = "returned"
    /\ chain.model # ""
    /\ chain.max_retries = MaxRetries
    /\ chain.response[1].provider = "backup"

\* =====================================================================
\* The cron scheduler (cron/scheduler.py)
\* =====================================================================

\* Times are whole numbers of half minutes: time.time() is `now`.
Minute == 2
\* The clock of the runs goes from StartTime to MaxTime.
StartTime == 2
MaxTime == 6
\* The most jobs stored and the most _loop tasks created in a run.
MaxJobs == 2
MaxStarts == 2
\* The most runs recorded in a run.
MaxRuns == 2

\* None, for schedule_at, next_run, last_run and the tick time.
NoTime == -1
\* No interval (schedule_every_ms None) and no cron expression.
NoSchedule == 0

\* The minute field "*/n" of a cron expression, n being the expression of
\* the model: the minutes that are multiples of n.
cron_matches(expr, dt) == (dt \div Minute) % expr = 0

\* next_cron_time: the first matching minute from the minute after `after`.
next_cron_time(expr, after) ==
    LET first == (after - (after % Minute)) + Minute
        minutes == {first + (k * Minute) : k \in 0..expr}
    IN  CHOOSE dt \in minutes :
            /\ cron_matches(expr, dt)
            /\ \A e \in minutes : cron_matches(expr, e) => dt <= e

\* Python's truth value of an Optional[float].
truthy(x) == x # NoTime /\ x # 0

\* The next run of a recurring job counted from the fire time it was due
\* for, not from the time of the run.
compute_next_run_from_due(job, after, clock) ==
    LET t == IF truthy(after) THEN after ELSE clock IN
    CASE job.schedule_kind = "at" ->
           IF truthy(job.schedule_at) /\ job.schedule_at > t
           THEN job.schedule_at ELSE NoTime
      [] job.schedule_kind = "every" ->
           IF truthy(job.next_run) THEN job.next_run + job.schedule_every
           ELSE t + job.schedule_every
      [] job.schedule_kind = "cron" ->
           IF truthy(job.next_run) THEN job.next_run + (job.schedule_cron_expr * Minute)
           ELSE next_cron_time(job.schedule_cron_expr, t)
      [] OTHER -> NoTime

\* CronJob.compute_next_run(after), with time.time() = clock.
compute_next_run(job, after, clock) ==
    LET t == IF truthy(after) THEN after ELSE clock IN
    CASE job.schedule_kind = "at" ->
           IF truthy(job.schedule_at) /\ job.schedule_at > t
           THEN job.schedule_at ELSE NoTime
      [] job.schedule_kind = "every" ->
           IF job.schedule_every = NoSchedule THEN NoTime
           ELSE IF truthy(job.last_run) THEN job.last_run + job.schedule_every
           ELSE t + job.schedule_every
      [] job.schedule_kind = "cron" ->
           IF job.schedule_cron_expr = NoSchedule THEN NoTime
           ELSE next_cron_time(job.schedule_cron_expr, t)
      [] OTHER -> NoTime

\* make_job: a new enabled job.
make_job(id, schedule_kind, schedule_at, schedule_every, schedule_cron_expr, clock) ==
    [id |-> id, enabled |-> TRUE, schedule_kind |-> schedule_kind,
     schedule_at |-> schedule_at, schedule_every |-> schedule_every,
     schedule_cron_expr |-> schedule_cron_expr,
     next_run |-> NoTime, last_run |-> NoTime, run_count |-> 0,
     created_at |-> clock]

\* The schedules of the jobs of the runs.
JobSchedules ==
    {[kind |-> "at", at |-> a, every |-> NoSchedule, expr |-> NoSchedule] :
        a \in {StartTime - 1, StartTime + 1}}
    \cup {[kind |-> "every", at |-> NoTime, every |-> e, expr |-> NoSchedule] :
        e \in {1}}
    \cup {[kind |-> "cron", at |-> NoTime, every |-> NoSchedule, expr |-> x] :
        x \in {1}}

\* CronStore.get_due_jobs(): the rows of the SELECT.
is_due(job, clock) == job.enabled /\ job.next_run # NoTime /\ job.next_run <= clock
get_due_jobs(jobs, clock) == SelectSeq(jobs, LAMBDA job : is_due(job, clock))

\* One-shot jobs left enabled by mark_run.
enabled_after_run_unchanged(job) == job.enabled

\* mark_run, lines 261-263: one-shot jobs auto-disable.
enabled_after_run(job) == IF job.schedule_kind = "at" THEN FALSE ELSE job.enabled

\* CronStore.mark_run(job, status) at time clock: the job object after it.
mark_run(job, clock) ==
    LET ran == [job EXCEPT !.last_run = clock, !.run_count = @ + 1]
        next == [ran EXCEPT !.next_run = compute_next_run(ran, clock, clock)]
    IN  [next EXCEPT !.enabled = enabled_after_run(next)]

\* The UPDATE of mark_run: four columns of the row of the job.
update_row(row, job) ==
    [row EXCEPT !.last_run = job.last_run, !.run_count = job.run_count,
                !.next_run = job.next_run, !.enabled = job.enabled]

\* The INSERT of mark_run.
CronRun(job, clock, status) == [job_id |-> job.id, started_at |-> clock, status |-> status]

\* A _loop task: created, it is about to test `while self._running`.
NewLoop == [pc |-> "loop", due |-> <<>>, k |-> 0, tick_at |-> NoTime, outcome |-> ""]
LoopIds == 1..Len(sched.tasks)
LoopAlive(l) == sched.tasks[l].pc # "done"

\* CronScheduler.__init__
NewScheduler == [_running |-> FALSE, _task |-> 0, tasks |-> <<>>]

\* make_job and CronStore.add (cli.py cron add).
CronAdd(schedule) ==
    LET job == make_job(Len(cron_jobs) + 1, schedule.kind, schedule.at,
                        schedule.every, schedule.expr, now)
    IN
    /\ Len(cron_jobs) < MaxJobs
    /\ cron_jobs' = Append(cron_jobs,
                           [job EXCEPT !.next_run = compute_next_run(job, NoTime, now)])
    /\ UNCHANGED <<cron_runs, now, sched, orchestrator_vars, chain, agent_vars,
                   function_vars>>

\* Time passes.
ClockAdvance ==
    /\ now < MaxTime
    /\ now' = now + 1
    /\ UNCHANGED <<cron_jobs, cron_runs, sched, orchestrator_vars, chain, agent_vars,
                   function_vars>>

\* start() with the test of _running left out.
never_running(s) == FALSE

\* start(), line 311: if self._running: return
already_running(s) == s._running

\* CronScheduler.start()
CronStart ==
    /\ Len(sched.tasks) < MaxStarts
    /\ sched' = IF already_running(sched)
                THEN sched
                ELSE [sched EXCEPT !._running = TRUE,
                                   !._task = Len(sched.tasks) + 1,
                                   !.tasks = Append(@, NewLoop)]
    /\ UNCHANGED <<cron_jobs, cron_runs, now, orchestrator_vars, chain, agent_vars,
                   function_vars>>

\* CronScheduler.stop(): the task of self._task is cancelled; the
\* CancelledError reaches it at the await it is suspended in (the sleep, the
\* store, or the executor under wait_for) and ends _loop.
CronStop ==
    /\ sched' = [sched EXCEPT
                    !._running = FALSE,
                    !.tasks = IF sched._task # 0 /\ LoopAlive(sched._task)
                              THEN [@ EXCEPT ![sched._task] = [@ EXCEPT !.pc = "done"]]
                              ELSE @]
    /\ UNCHANGED <<cron_jobs, cron_runs, now, orchestrator_vars, chain, agent_vars,
                   function_vars>>

\* _loop, line 324, after the task was created or the sleep is over: the
\* loop ends, or _tick reads the due jobs and the first of them is handed to
\* the executor; with no due job _tick returns and the loop sleeps. The runs
\* of a behaviour are capped at MaxRuns.
LoopTick(l) ==
    LET due == get_due_jobs(cron_jobs, now) IN
    /\ sched.tasks[l].pc = "loop"
    /\ Len(cron_runs) + Len(due) <= MaxRuns
    /\ sched' = [sched EXCEPT !.tasks[l] =
                    IF ~sched._running THEN [@ EXCEPT !.pc = "done"]
                    ELSE IF due = <<>> THEN [@ EXCEPT !.tick_at = now]
                    ELSE [@ EXCEPT !.pc = "exec", !.tick_at = now, !.due = due, !.k = 1]]
    /\ UNCHANGED <<cron_jobs, cron_runs, now, orchestrator_vars, chain, agent_vars,
                   function_vars>>

ExecutorOutcomes == {"return", "TimeoutError", "Exception"}

\* wait_for(self.executor(job), timeout=job.payload_timeout) is over: the
\* executor returned, the TimeoutError was raised, or the executor raised.
ExecutorDone(l, outcome) ==
    /\ sched.tasks[l].pc = "exec"
    /\ sched' = [sched EXCEPT !.tasks[l] = [@ EXCEPT !.pc = "mark", !.outcome = outcome]]
    /\ UNCHANGED <<cron_jobs, cron_runs, now, orchestrator_vars, chain, agent_vars,
                   function_vars>>

\* _tick with the `except Exception` of line 350 left out.
tick_handles_timeout_only(outcome) == outcome \in {"return", "TimeoutError"}

\* _tick, lines 345-352: the outcomes that end in a mark_run.
tick_handles(outcome) == outcome \in {"return", "TimeoutError", "Exception"}

\* The status that _tick passes to mark_run, lines 345, 348 and 351.
run_status(outcome) ==
    CASE outcome = "return" -> "ok"
      [] outcome = "TimeoutError" -> "timeout"
      [] OTHER -> "error"

\* mark_run for the job just run, then the next due job of the tick or, after
\* the last one, the sleep of _loop. An exception that _tick does not handle
\* leaves the tick and is logged by _loop, which sleeps.
MarkRun(l) ==
    LET loop == sched.tasks[l]
        job == loop.due[loop.k]
        ran == mark_run(job, now)
    IN
    /\ loop.pc = "mark"
    /\ IF tick_handles(loop.outcome)
       THEN /\ cron_jobs' = [cron_jobs EXCEPT ![job.id] = update_row(@, ran)]
            /\ cron_runs' = Append(cron_runs, CronRun(job, now, run_status(loop.outcome)))
            /\ sched' = [sched EXCEPT !.tasks[l] =
                            IF loop.k < Len(loop.due)
                            THEN [@ EXCEPT !.pc = "exec", !.k = @ + 1, !.outcome = ""]
                            ELSE [@ EXCEPT !.pc = "loop", !.outcome = "",
                                           !.due = <<>>, !.k = 0]]
       ELSE /\ sched' = [sched EXCEPT !.tasks[l] = [@ EXCEPT !.pc = "loop", !.outcome = "",
                                                            !.due = <<>>, !.k = 0]]
            /\ UNCHANGED <<cron_jobs, cron_runs>>
    /\ UNCHANGED <<now, orchestrator_vars, chain, agent_vars,
                   function_vars>>

InitCron ==
    /\ OrchestratorIdle
    /\ FunctionsIdle
    /\ ChainIdle
    /\ AgentsIdle
    /\ cron_jobs = <<>>
    /\ cron_runs = <<>>
    /\ now = StartTime
    /\ sched = NewScheduler

LoopStep ==
    \E l \in LoopIds :
        \/ LoopTick(l)
        \/ \E outcome \in ExecutorOutcomes : ExecutorDone(l, outcome)
        \/ MarkRun(l)

NextCron ==
    \/ \E schedule \in JobSchedules : CronAdd(schedule)
    \/ ClockAdvance
    \/ CronStart
    \/ CronStop
    \/ LoopStep

SpecCron == InitCron /\ [][NextCron]_vars

JobIds == 1..Len(cron_jobs)

\* Loop l has job j at the executor or at its mark_run.
InHand(l, j) ==
    /\ sched.tasks[l].pc \in {"exec", "mark"}
    /\ sched.tasks[l].due[sched.tasks[l].k].id = j

\* Loop l has job j at hand or still ahead of it in the tick it is in.
Ahead(l, j) ==
    /\ sched.tasks[l].pc \in {"exec", "mark"}
    /\ \E k \in sched.tasks[l].k .. Len(sched.tasks[l].due) : sched.tasks[l].due[k].id = j

RunsOf(j) == {r \in 1..Len(cron_runs) : cron_runs[r].job_id = j}

\* C13: an `at` job that has a recorded run, whatever its status, is
\* disabled, has run_count 1, no next_run and exactly one recorded run, is
\* not due at any time, and no tick has it at the executor or ahead of it.
C13_AtJobRunsOnce ==
    \A j \in JobIds :
        (cron_jobs[j].schedule_kind = "at" /\ (cron_jobs[j].run_count > 0 \/ RunsOf(j) # {}))
        => /\ cron_jobs[j].enabled = FALSE
           /\ cron_jobs[j].run_count = 1
           /\ cron_jobs[j].next_run = NoTime
           /\ Cardinality(RunsOf(j)) = 1
           /\ \A t \in StartTime..MaxTime : ~is_due(cron_jobs[j], t)
           /\ \A l \in LoopIds : ~Ahead(l, j)

\* An `at` job ran once and timed out, and a later tick at a later time has
\* passed it by.
C13_Witness ==
    \E j \in JobIds, l \in LoopIds :
        /\ cron_jobs[j].schedule_kind = "at"
        /\ \E r \in RunsOf(j) : cron_runs[r].status = "timeout"
        /\ sched.tasks[l].tick_at > cron_jobs[j].last_run
        /\ sched.tasks[l].pc = "loop"

\* Loop l has finished a tick started after time t.
TickedAfter(l, t) == sched.tasks[l].pc = "loop" /\ sched.tasks[l].tick_at > t

\* C14: an `at` job whose schedule_at was already in the past when it was
\* stored has, once a tick that started after it was stored is over, been
\* executed once: it has a recorded run, run_count 1 and is disabled.
C14_PastAtJobRunsOnNextTick ==
    \A j \in JobIds, l \in LoopIds :
        (/\ cron_jobs[j].schedule_kind = "at"
         /\ cron_jobs[j].schedule_at < cron_jobs[j].created_at
         /\ TickedAfter(l, cron_jobs[j].created_at))
        => /\ RunsOf(j) # {}
           /\ cron_jobs[j].run_count = 1
           /\ cron_jobs[j].enabled = FALSE

\* The scheduler with its loop task scheduled fairly: the event loop resumes
\* a task whose sleep, store call or executor call is over, and every
\* executor call returns, raises or times out.
SpecCronLive == SpecCron /\ WF_vars(LoopStep)

\* The time at which a job is to fire: schedule_at of an `at` job, next_run
\* of the others.
FireTime(job) == IF job.schedule_kind = "at" THEN job.schedule_at ELSE job.next_run

\* Job j is enabled and its fire time has been reached.
FireTimeReached(j) ==
    /\ j \in JobIds
    /\ cron_jobs[j].enabled
    /\ FireTime(cron_jobs[j]) # NoTime
    /\ FireTime(cron_jobs[j]) <= now

\* The runs of the behaviour have reached their cap.
RunsCapped == Len(cron_runs) + Len(get_due_jobs(cron_jobs, now)) > MaxRuns

\* C15: an enabled job whose fire time has been reached is eventually
\* executed (mark_run disables it or moves its fire time), unless the
\* scheduler is not running.
C15_DueJobEventuallyRuns ==
    \A j \in 1..MaxJobs :
        FireTimeReached(j) ~> (~FireTimeReached(j) \/ ~sched._running \/ RunsCapped)

\* The loops that are in a tick with a job at the executor or at mark_run.
Executing == {l \in LoopIds : sched.tasks[l].pc \in {"exec", "mark"}}

\* C16: at most one _loop task is alive, at most one tick has a job in hand,
\* no job is in the hands of two loops, and within a tick the next due job
\* is taken up only by the step that marks the run of the one before it.
C16_NoTwoRunsInFlight ==
    /\ [](/\ Cardinality({l \in LoopIds : LoopAlive(l)}) <= 1
          /\ Cardinality(Executing) <= 1
          /\ \A j \in JobIds : Cardinality({l \in LoopIds : InHand(l, j)}) <= 1)
    /\ [][\A l \in LoopIds :
            (LoopAlive(l) /\ sched'.tasks[l].pc = "exec" /\ sched'.tasks[l].k # sched.tasks[l].k)
            => \/ sched.tasks[l].pc = "loop" /\ sched'.tasks[l].k = 1
               \/ /\ sched.tasks[l].pc = "mark"
                  /\ sched'.tasks[l].k = sched.tasks[l].k + 1
                  /\ Len(cron_runs') = Len(cron_runs) + 1]_vars

\* stop() cut a tick short with a job at the executor, start() followed, and
\* the new loop has the same job at the executor.
C16_Witness ==
    /\ Len(sched.tasks) = 2
    /\ ~LoopAlive(1)
    /\ sched.tasks[1].k > 0
    /\ InHand(2, sched.tasks[1].due[sched.tasks[1].k].id)

Recurring(j) == cron_jobs[j].schedule_kind \in {"every", "cron"}

max_concurrent == 2
MaxAgents == 3

\* AgentStatus
Terminal == {"completed", "failed", "timeout", "cancelled"}
AgentStatus == {"pending", "running"} \cup Terminal

\* spawn: the agent is pending and the task of _run is created; it is about
\* to enter `async with self._semaphore`.
SubAgent == [status |-> "pending", pc |-> "acquire", ended |-> "",
             deliveries |-> <<>>, finished_at |-> FALSE, cancel_called |-> FALSE]

AgentIds == 1..Len(agents)

\* The semaphore taken without a test of its value.
slot_unchecked(value) == TRUE

\* asyncio.Semaphore.acquire returns when the value is positive.
slot_free(value) == value > 0

\* AgentManager.spawn
Spawn ==
    /\ Len(agents) < MaxAgents
    /\ agents' = Append(agents, SubAgent)
    /\ UNCHANGED <<semaphore, orchestrator_vars, chain, cron_vars,
                   function_vars>>

\* _run, lines 116-121: the semaphore is acquired, the agent is running and
\* run_fn is awaited under wait_for.
Acquire(a) ==
    /\ agents[a].pc = "acquire"
    /\ slot_free(semaphore)
    /\ semaphore' = semaphore - 1
    /\ agents' = [agents EXCEPT ![a] = [@ EXCEPT !.status = "running", !.pc = "run"]]
    /\ UNCHANGED <<orchestrator_vars, chain, cron_vars,
                   function_vars>>

RunOutcomes == {"return", "TimeoutError", "Exception"}

\* Only the result of a successful run handed to deliver_fn.
deliver_result_only(outcome) == IF outcome = "return" THEN <<"result">> ELSE <<>>

\* The text handed to deliver_fn, lines 130-131, 137-140 and 148-151.
deliver_fn(outcome) ==
    CASE outcome = "return" -> <<"result">>
      [] outcome = "TimeoutError" -> <<"timed out">>
      [] OTHER -> <<"failed">>

\* wait_for(run_fn) is over, lines 125-150: the status is set and the
\* result or the notice is handed to deliver_fn.
RunDone(a, outcome) ==
    /\ agents[a].pc = "run"
    /\ agents' = [agents EXCEPT ![a] =
                    [@ EXCEPT !.ended = outcome,
                              !.deliveries = @ \o deliver_fn(outcome),
                              !.status = CASE outcome = "return" -> "completed"
                                           [] outcome = "TimeoutError" -> "timeout"
                                           [] OTHER -> "failed",
                              !.pc = IF outcome = "return" THEN "deliver" ELSE "notify"]]
    /\ UNCHANGED <<semaphore, orchestrator_vars, chain, cron_vars,
                   function_vars>>

\* deliver_fn is over and the slot is kept.
DeliveredKeepsSlot(a) ==
    /\ agents[a].pc \in {"deliver", "notify"}
    /\ agents' = [agents EXCEPT ![a] = [@ EXCEPT !.pc = "done", !.finished_at = TRUE]]
    /\ semaphore' = semaphore
    /\ UNCHANGED <<orchestrator_vars, chain, cron_vars,
                   function_vars>>

\* deliver_fn (PlugBot._deliver_to_channel, which raises no Exception) is
\* over: finally, and the semaphore is released.
Delivered(a) ==
    /\ agents[a].pc \in {"deliver", "notify"}
    /\ agents' = [agents EXCEPT ![a] = [@ EXCEPT !.pc = "done", !.finished_at = TRUE]]
    /\ semaphore' = semaphore + 1
    /\ UNCHANGED <<orchestrator_vars, chain, cron_vars,
                   function_vars>>

\* AgentManager.cancel(agent_id): the task is cancelled at the await it is
\* suspended in. Before or at the acquire the CancelledError is raised
\* outside the try of _run; under wait_for and at the deliver_fn of line 131
\* it is caught by `except asyncio.CancelledError`; at the deliver_fn of an
\* except clause it leaves _run through the finally. The finally of line
\* 152 belongs to that try, so finished_at is set in all cases but the first.
task_cancel(agent) ==
    [agent EXCEPT !.pc = "done",
                  !.cancel_called = TRUE,
                  !.finished_at = agent.pc # "acquire",
                  !.ended = IF agent.pc \in {"acquire", "run"} THEN "CancelledError" ELSE @,
                  !.status = IF agent.pc \in {"run", "deliver"} THEN "cancelled" ELSE @]

\* AgentManager.cancel(agent_id) on an agent whose task is not done: the task
\* is cancelled, and the slot it held, if any, is released.
Cancel(a) ==
    /\ agents[a].pc # "done"
    /\ agents' = [agents EXCEPT ![a] = task_cancel(@)]
    /\ semaphore' = IF agents[a].pc = "acquire" THEN semaphore ELSE semaphore + 1
    /\ UNCHANGED <<orchestrator_vars, chain, cron_vars,
                   function_vars>>

\* AgentManager.cancel_all(): every task that is not done is cancelled.
CancelAll ==
    /\ \E a \in AgentIds : agents[a].pc # "done"
    /\ agents' = [a \in AgentIds |->
                    IF agents[a].pc # "done" THEN task_cancel(agents[a]) ELSE agents[a]]
    /\ semaphore' = semaphore
                     + Cardinality({a \in AgentIds : agents[a].pc \in {"run", "deliver", "notify"}})
    /\ UNCHANGED <<orchestrator_vars, chain, cron_vars,
                   function_vars>>

InitAgents ==
    /\ OrchestratorIdle
    /\ FunctionsIdle
    /\ ChainIdle
    /\ CronIdle
    /\ agents = <<>>
    /\ semaphore = max_concurrent

NextAgents ==
    \/ Spawn
    \/ \E a \in AgentIds : Acquire(a)
    \/ \E a \in AgentIds, outcome \in RunOutcomes : RunDone(a, outcome)
    \/ \E a \in AgentIds : Delivered(a)
    \/ \E a \in AgentIds : Cancel(a)
    \/ CancelAll

SpecAgents == InitAgents /\ [][NextAgents]_vars

\* The agents inside `async with self._semaphore`.
Holding == {a \in AgentIds : agents[a].pc \in {"run", "deliver", "notify"}}
Running == {a \in AgentIds : agents[a].status = "running"}

\* C19: the agents with status running are at most max_concurrent, each of
\* them holds a slot of the semaphore, the slots held and the free ones add
\* up to max_concurrent, and an agent becomes running only by taking a slot
\* that was free.
C19_RunningWithinBound ==
    /\ [](/\ Cardinality(Running) <= max_concurrent
          /\ Running \subseteq Holding
          /\ semaphore >= 0
          /\ Cardinality(Holding) + semaphore = max_concurrent)
    /\ [][\A a \in AgentIds :
            (agents[a].status # "running" /\ agents'[a].status = "running")
            => /\ agents[a].status = "pending"
               /\ semaphore > 0
               /\ semaphore' = semaphore - 1]_vars

\* All slots are taken by running agents and one more agent is pending.
C19_Witness ==
    /\ Cardinality(Running) = max_concurrent
    /\ semaphore = 0
    /\ \E a \in AgentIds : agents[a].status = "pending" /\ agents[a].pc = "acquire"

\* The terminal status that the end of the isolated turn calls for.
StatusFor(ended) ==
    CASE ended = "return" -> "completed"
      [] ended = "TimeoutError" -> "timeout"
      [] ended = "Exception" -> "failed"
      [] ended = "CancelledError" -> "cancelled"

\* C20: a status changes only from pending to running and from running to
\* a terminal status, so a terminal status never changes; and an agent whose
\* turn has ended (run_fn returned, timed out or raised, or the agent was
\* cancelled) has the terminal status of that ending.
C20_StatusTransitions ==
    /\ [][\A a \in AgentIds :
            agents'[a].status # agents[a].status
            => \/ agents[a].status = "pending" /\ agents'[a].status = "running"
               \/ agents[a].status = "running" /\ agents'[a].status \in Terminal]_vars
    /\ [](\A a \in AgentIds :
            /\ agents[a].status \in Terminal => agents[a].ended # ""
            /\ agents[a].ended # "" => agents[a].status = StatusFor(agents[a].ended))

\* C21: deliver_fn is invoked at most once for an agent; for an agent whose
\* task has ended and on which cancel was never called it was invoked exactly
\* once, with the result if run_fn returned, with the timeout notice if it
\* timed out, with the failure notice if it raised.
C21_DeliveredOnce ==
    \A a \in AgentIds :
        /\ Len(agents[a].deliveries) <= 1
        /\ (agents[a].pc = "done" /\ ~agents[a].cancel_called)
           => /\ agents[a].ended \in RunOutcomes
              /\ agents[a].deliveries =
                    <<CASE agents[a].ended = "return" -> "result"
                        [] agents[a].ended = "TimeoutError" -> "timed out"
                        [] agents[a].ended = "Exception" -> "failed">>

\* Three agents have ended without a cancel: one delivered its result, one a
\* timeout notice, one a failure notice.
C21_Witness ==
    /\ \A a \in AgentIds : agents[a].pc = "done" /\ ~agents[a].cancel_called
    /\ {agents[a].deliveries : a \in AgentIds} = {<<"result">>, <<"timed out">>, <<"failed">>}

\* C22: an agent on which cancel was called while its task had not ended has
\* status cancelled, and deliver_fn was not invoked for it.
C22_CancelledWithoutDelivery ==
    \A a \in AgentIds :
        agents[a].cancel_called
        => /\ agents[a].status = "cancelled"
           /\ agents[a].deliveries = <<>>

\* C23: every agent whose task has ended has finished_at set.
C23_FinishedAtSet ==
    \A a \in AgentIds : agents[a].pc = "done" => agents[a].finished_at

\* The task of _run of agent a takes a step: the semaphore is acquired,
\* wait_for is over, or deliver_fn is over.
AgentStep(a) ==
    /\ a \in AgentIds
    /\ \/ Acquire(a)
       \/ \E outcome \in RunOutcomes : RunDone(a, outcome)
       \/ Delivered(a)

\* The agents with their tasks scheduled fairly: the event loop resumes a
\* task whose semaphore has a free slot, wait_for ends by the return, the
\* exception or the timeout of run_fn, and deliver_fn returns.
SpecAgentsLive == SpecAgents /\ \A a \in 1..MaxAgents : WF_vars(AgentStep(a))

MaxTokens == 6
\* The backtick is written "B"; a fence marker is three of them.
Backtick == "B"
Fence == <<Backtick, Backtick, Backtick>>
Tokens == {<<"a">>, <<" ">>, <<"\n">>, Fence}
Texts == {Flatten(ts) : ts \in UNION {[1..n -> Tokens] : n \in 0..MaxTokens}}
\* The values of max_length of the runs.
Lengths == {4, 5, 8, 10}

\* str.isspace for the characters of the runs.
is_space(c) == c \in {" ", "\n"}

\* text[k:] of the Python code (k >= 0).
py_suffix(seq, k) == SubSeq(seq, k + 1, Len(seq))

\* str.rstrip()
RECURSIVE rstrip(_)
rstrip(text) ==
    IF text # <<>> /\ is_space(text[Len(text)])
    THEN rstrip(SubSeq(text, 1, Len(text) - 1))
    ELSE text

\* The first character dropped whatever it is.
lstrip_any(text) == IF text # <<>> THEN Tail(text) ELSE text

\* str.lstrip("\n")
RECURSIVE lstrip_newlines(_)
lstrip_newlines(text) ==
    IF text # <<>> /\ Head(text) = "\n" THEN lstrip_newlines(Tail(text)) ELSE text

\* str.strip()
RECURSIVE lstrip(_)
lstrip(text) == IF text # <<>> /\ is_space(Head(text)) THEN lstrip(Tail(text)) ELSE text
strip(text) == lstrip(rstrip(text))

\* re.finditer of the fence marker in window: the starts of the matches, left to right and
\* not overlapping, from index i on.
RECURSIVE finditer(_, _)
finditer(window, i) ==
    IF i + 3 > Len(window) THEN <<>>
    ELSE IF SubSeq(window, i + 1, i + 3) = Fence
         THEN <<i>> \o finditer(window, i + 3)
         ELSE finditer(window, i + 1)

\* str.find(ch, start) and str.rfind(ch) for a character, str.rfind("\n\n").
find(text, ch, start) ==
    LET hits == {i \in start..Len(text) - 1 : text[i + 1] = ch}
    IN  IF hits = {} THEN -1 ELSE CHOOSE i \in hits : \A j \in hits : i <= j
rfind(text, ch) ==
    LET hits == {i \in 0..Len(text) - 1 : text[i + 1] = ch}
    IN  IF hits = {} THEN -1 ELSE CHOOSE i \in hits : \A j \in hits : i >= j
rfind_para(text) ==
    LET hits == {i \in 0..Len(text) - 2 : text[i + 1] = "\n" /\ text[i + 2] = "\n"}
    IN  IF hits = {} THEN -1 ELSE CHOOSE i \in hits : \A j \in hits : i >= j

\* _find_split_point, lines 83-99: paragraph break, line break, word
\* boundary, hard cut.
split_at_break(window, max_length) ==
    IF rfind_para(window) > max_length \div 3 THEN rfind_para(window) + 1
    ELSE IF rfind(window, "\n") > max_length \div 3 THEN rfind(window, "\n") + 1
    ELSE IF rfind(window, " ") > max_length \div 2 THEN rfind(window, " ") + 1
    ELSE max_length

\* _find_split_point(text, max_length)
_find_split_point(text, max_length) ==
    LET window == py_prefix(text, max_length)
        code_blocks == finditer(window, 0)
        n == Len(code_blocks)
        \* the end of code_blocks[i + 1] for the last i of range(0, n - 1, 2)
        last_complete == IF n >= 3 THEN code_blocks[n - 1] + 3 ELSE -1
        first_block == code_blocks[1]
    IN
    IF n > 0 /\ n % 2 # 0
    THEN IF last_complete # -1 /\ last_complete > max_length \div 4
         THEN IF find(window, "\n", last_complete) # -1
              THEN find(window, "\n", last_complete) + 1
              ELSE last_complete
         ELSE IF first_block > max_length \div 4
              THEN Len(rstrip(py_prefix(window, first_block)))
              ELSE split_at_break(window, max_length)
    ELSE split_at_break(window, max_length)

\* return [c for c in chunks if c.strip()]
drop_blank(chunks) == SelectSeq(chunks, LAMBDA c : strip(c) # <<>>)

ChunkCalls ==
    {[text |-> text, max_length |-> max_length, pc |-> "call",
      remaining |-> <<>>, chunks |-> <<>>, result |-> <<>>] :
        text \in Texts, max_length \in Lengths}

\* chunk_message, lines 23-27: a text that fits is returned as it is.
ChunkCall ==
    /\ chunker.pc = "call"
    /\ chunker' = IF Len(chunker.text) <= chunker.max_length
                  THEN [chunker EXCEPT !.pc = "returned", !.result = <<chunker.text>>]
                  ELSE [chunker EXCEPT !.pc = "loop", !.remaining = chunker.text]
    /\ UNCHANGED <<orchestrator_vars, chain, cron_vars, agent_vars, inbox, store_call,
                 cron_call, shutdown>>

\* One turn of `while remaining`, lines 29-40, and the return of line 42
\* when the loop is left.
ChunkLoop ==
    LET remaining == chunker.remaining
        split_at == _find_split_point(remaining, chunker.max_length)
        chunk == rstrip(py_prefix(remaining, split_at))
    IN
    /\ chunker.pc = "loop"
    /\ chunker' =
          IF remaining = <<>>
          THEN [chunker EXCEPT !.pc = "returned", !.result = drop_blank(chunker.chunks)]
          ELSE IF Len(remaining) <= chunker.max_length
          THEN [chunker EXCEPT !.pc = "returned", !.remaining = <<>>,
                               !.chunks = Append(@, remaining),
                               !.result = drop_blank(Append(chunker.chunks, remaining))]
          ELSE [chunker EXCEPT !.remaining = lstrip_newlines(py_suffix(remaining, split_at)),
                               !.chunks = IF chunk # <<>> THEN Append(@, chunk) ELSE @]
    /\ UNCHANGED <<orchestrator_vars, chain, cron_vars, agent_vars, inbox, store_call,
                 cron_call, shutdown>>

InitChunk ==
    /\ OrchestratorIdle
    /\ ChainIdle
    /\ CronIdle
    /\ AgentsIdle
    /\ inbox = <<>>
    /\ store_call = <<>>
    /\ cron_call = <<>>
    /\ shutdown = <<>>
    /\ chunker \in ChunkCalls

NextChunk == ChunkCall \/ ChunkLoop

SpecChunk == InitChunk /\ [][NextChunk]_vars

Returned == chunker.pc = "returned"
Chunks == {chunker.result[k] : k \in 1..Len(chunker.result)}

\* C24: every chunk that chunk_message returns is non-empty and at most
\* max_length characters long.
C24_ChunksWithinLength ==
    Returned => \A c \in Chunks : c # <<>> /\ Len(c) <= chunker.max_length



\* The number of fence markers of a text, counted as _find_split_point
\* counts them.
fences(text) == Len(finditer(text, 0))

\* The fenced blocks of a text, markers included, as pairs of start and end:
\* the markers pair up in order, as in _find_split_point.
fenced_blocks(text) ==
    LET code_blocks == finditer(text, 0)
    IN  {<<code_blocks[i], code_blocks[i + 1] + 3>> :
            i \in {j \in 1..Len(code_blocks) - 1 : j % 2 = 1}}

\* C25: when every fence of the text is closed and every fenced block fits
\* in max_length, no chunk that chunk_message returns holds an odd number of
\* fence markers.
C25_NoChunkBreaksFence ==
    (/\ Returned
     /\ fences(chunker.text) % 2 = 0
     /\ \A b \in fenced_blocks(chunker.text) : b[2] - b[1] <= chunker.max_length)
    => \A c \in Chunks : fences(c) % 2 = 0

\* A text of whitespace only (the empty text included).
blank(text) == \A i \in 1..Len(text) : is_space(text[i])

\* text is the chunks in their order, with nothing but whitespace before,
\* between and after them.
RECURSIVE Interleaves(_, _)
Interleaves(text, chunks) ==
    IF chunks = <<>> THEN blank(text)
    ELSE \E k \in 0..Len(text) - Len(Head(chunks)) :
            /\ blank(py_prefix(text, k))
            /\ SubSeq(text, k + 1, k + Len(Head(chunks))) = Head(chunks)
            /\ Interleaves(py_suffix(text, k + Len(Head(chunks))), Tail(chunks))

\* C26: the text given to chunk_message is the returned chunks in their
\* order with only whitespace between them: no other character is lost,
\* duplicated or moved.
C26_ChunksReproduceText ==
    Returned => Interleaves(chunker.text, chunker.result)

\* A text was split in three chunks and whitespace was dropped at a split.
C26_Witness ==
    /\ Returned
    /\ Len(chunker.result) = 3
    /\ Len(Flatten(chunker.result)) < Len(chunker.text)

\* =====================================================================
\* Admission of an inbound message (bot/client.py on_message, router.py)
\* =====================================================================

\* The users, guilds and locations of the runs: a direct-message channel, a
\* guild channel that the router maps to a persona, one that it does not.
UserIds == {"u1", "u2"}
GuildIds == {"g1", "g2"}
Locations == {"dm", "c1", "c2"}

\* Optional[list[str]]: None, or a list of user ids.
NoList == {}
list_of(ids) == {ids}

\* AgentPersona (router.py 23-35), by its authorized_users.
AgentPersona == [name : {"CTO"}, authorized_users : {NoList} \cup {list_of(ids) : ids \in SUBSET {"u1"}}]
NoPersona == [name |-> "", authorized_users |-> NoList]

\* AgentRouter: the persona of the mapped channel and the default persona
\* (none, or the same persona); NoRouter when the bot has no router.
AgentRouter == [mapped : AgentPersona, has_default : BOOLEAN]
NoRouter == [mapped |-> NoPersona, has_default |-> FALSE]

\* AgentRouter.route(channel_id)
route(router, channel_id) ==
    IF channel_id = "c1" THEN router.mapped
    ELSE IF router.has_default THEN router.mapped
    ELSE NoPersona

\* The configuration read by the admission checks.
AdmissionConfigs ==
    [router : AgentRouter \cup {NoRouter},
     guild_ids : {{}, {"g1"}},
     require_mention : BOOLEAN,
     dm_policy : {"open", "allowlist"},
     dm_allowlist : {{}, {"u1"}}]

\* An inbound message: who wrote it (the bot itself, another bot, a webhook,
\* a webhook whose name ends in " Report", a user), where, and whether it
\* mentions the bot.
Authors == {"self", "bot", "webhook", "report webhook"} \cup UserIds
InboundMessages ==
    {m \in [author : Authors, channel : Locations, guild : GuildIds \cup {""}, mentioned : BOOLEAN] :
        (m.channel = "dm") = (m.guild = "")}

author_bot(m) == m.author \in {"bot", "webhook", "report webhook"}
webhook_id(m) == m.author \in {"webhook", "report webhook"}

\* _check_dm_policy
_check_dm_policy(config, m) ==
    \/ config.dm_policy = "open"
    \/ m.author \in config.dm_allowlist

\* _check_guild_policy
_check_guild_policy(config, m) ==
    /\ config.guild_ids # {} => m.guild \in config.guild_ids
    /\ config.router # NoRouter => route(config.router, m.channel) # NoPersona
    /\ config.require_mention => m.mentioned

\* _should_respond
_should_respond(config, m) ==
    IF m.channel = "dm" THEN _check_dm_policy(config, m) ELSE _check_guild_policy(config, m)

\* on_message, lines 250-299: TRUE when the message reaches _handle_message.
passes_filters(config, m, busy) ==
    /\ m.author # "self"
    /\ author_bot(m) =>
          /\ webhook_id(m)
          /\ config.router # NoRouter
          /\ route(config.router, m.channel) # NoPersona
          /\ m.author # "report webhook"
    /\ ~(/\ config.router # NoRouter
         /\ route(config.router, m.channel) # NoPersona
         /\ m.mentioned)
    /\ _should_respond(config, m)
    /\ m.channel \notin busy


\* on_message: the message is dropped, or its channel is marked and
\* _handle_message starts a turn for it.
FilterMessage ==
    /\ inbox # <<>>
    /\ inbox.pc = "idle"
    /\ \E m \in InboundMessages :
          inbox' = IF passes_filters(inbox.config, m, inbox._processing)
                   THEN [inbox EXCEPT !.pc = "handling", !.message = m,
                                      !._processing = @ \cup {m.channel}]
                   ELSE [inbox EXCEPT !.pc = "ignored", !.message = m]
    /\ UNCHANGED <<orchestrator_vars, chain, cron_vars, agent_vars, chunker, store_call,
                 cron_call, shutdown>>

\* on_message, the finally clause: the turn is over.
HandleReturn ==
    /\ inbox # <<>>
    /\ inbox.pc = "handling"
    /\ inbox' = [inbox EXCEPT !.pc = "handled", !._processing = @ \ {inbox.message.channel}]
    /\ UNCHANGED <<orchestrator_vars, chain, cron_vars, agent_vars, chunker, store_call,
                 cron_call, shutdown>>

NoMessage == [author |-> "", channel |-> "", guild |-> "", mentioned |-> FALSE]

InitAdmission ==
    /\ OrchestratorIdle
    /\ ChainIdle
    /\ CronIdle
    /\ AgentsIdle
    /\ chunker = <<>>
    /\ store_call = <<>>
    /\ cron_call = <<>>
    /\ shutdown = <<>>
    /\ \E config \in AdmissionConfigs, busy \in SUBSET {"c1"} :
          inbox = [config |-> config, _processing |-> busy, pc |-> "idle", message |-> NoMessage]

NextAdmission == FilterMessage \/ HandleReturn

SpecAdmission == InitAdmission /\ [][NextAdmission]_vars

\* The persona that the router gives for the location of the message.
routed_persona ==
    IF inbox.config.router = NoRouter THEN NoPersona
    ELSE route(inbox.config.router, inbox.message.channel)

\* C27: a message from a user who is not in the authorized_users list of the
\* persona routed for its location (the list not being None) does not start
\* a turn.
C27_UnauthorizedUserStartsNoTurn ==
    (/\ inbox # <<>>
     /\ inbox.pc \in {"handling", "handled"}
     /\ inbox.message.author \in UserIds
     /\ routed_persona.authorized_users # NoList)
    => \E ids \in routed_persona.authorized_users : inbox.message.author \in ids

\* =====================================================================
\* Compactor.check_and_compact: the split point (sessions/compactor.py)
\* =====================================================================

\* The latest check_and_compact call computed a split point.
SplitComputed == cc.ch # "" /\ cc.keep0 >= 0

\* C28: when the split point is 0 or less after _safe_split_point has walked
\* it back over tool messages, check_and_compact makes no summarization
\* call, marks no message compacted, appends no summary and returns False.
C28_NoOpAtZeroSplit ==
    (SplitComputed /\ cc.keep_from <= 0)
    => /\ ~cc.called
       /\ ~cc.ret
       /\ cc.post = cc.pre

\* C29: a performed compaction leaves the two newest messages of the
\* non-compacted view it started from non-compacted.
C29_KeepsLastTwo ==
    Performed =>
        \A i \in (Len(PreView) - KeepLast + 1)..Len(PreView) :
            ~cc.post[PreIds[i]].compacted

\* =====================================================================
\* SessionStore.mark_compacted (sessions/store.py)
\* =====================================================================

\* The tables of the runs: at most MaxStoreRows rows of two channels, user,
\* assistant and system messages, compacted or not; the id of a row is its
\* position.
MaxStoreRows == 3
MaxStoreCalls == 2
StoreRows ==
    {[Row(c, Message(role, "text", ShortSize, <<>>, NoId, ""), ShortSize)
        EXCEPT !.compacted = compacted] :
        c \in Channels, role \in {"user", "assistant", "system"}, compacted \in BOOLEAN}
StoreTables == UNION {[1..n -> StoreRows] : n \in 0..MaxStoreRows}

\* await store.mark_compacted(channel_id, up_to_id): the UPDATE, the commit
\* and the returned cursor.rowcount.
MarkCompacted(channel_id, up_to_id) ==
    /\ store_call # <<>>
    /\ store_call.calls < MaxStoreCalls
    /\ store_call' =
          [tab |-> mark_compacted(store_call.tab, channel_id, up_to_id),
           pre |-> store_call.tab,
           channel_id |-> channel_id,
           up_to_id |-> up_to_id,
           rowcount |-> Cardinality(MarkedIds(store_call.tab, channel_id, up_to_id)),
           calls |-> store_call.calls + 1]
    /\ UNCHANGED <<orchestrator_vars, chain, cron_vars, agent_vars, chunker, inbox,
                 cron_call, shutdown>>

InitStore ==
    /\ OrchestratorIdle
    /\ ChainIdle
    /\ CronIdle
    /\ AgentsIdle
    /\ chunker = <<>>
    /\ inbox = <<>>
    /\ cron_call = <<>>
    /\ shutdown = <<>>
    /\ \E tab \in StoreTables :
          store_call = [tab |-> tab, pre |-> tab, channel_id |-> "", up_to_id |-> 0,
                        rowcount |-> 0, calls |-> 0]

NextStore == \E channel_id \in Channels, up_to_id \in 0..MaxStoreRows + 1 :
                MarkCompacted(channel_id, up_to_id)

SpecStore == InitStore /\ [][NextStore]_vars

\* The rows that the latest mark_compacted call had to mark.
ToMark ==
    {i \in 1..Len(store_call.pre) :
        /\ store_call.pre[i].channel_id = store_call.channel_id
        /\ ~store_call.pre[i].compacted
        /\ i <= store_call.up_to_id
        /\ store_call.pre[i].role # "system"}

\* C30: after mark_compacted(channel_id, up_to_id) the table has the same
\* rows; the rows of the channel that were non-compacted, with id at most
\* up_to_id and a role other than system are compacted and otherwise as they
\* were; every other row, the system rows and the rows of other channels
\* among them, is as it was; the value returned is the number of rows marked.
C30_MarkCompactedExact ==
    (store_call # <<>> /\ store_call.calls > 0)
    => /\ Len(store_call.tab) = Len(store_call.pre)
       /\ \A i \in 1..Len(store_call.pre) :
             store_call.tab[i] =
                IF i \in ToMark
                THEN [store_call.pre[i] EXCEPT !.compacted = TRUE]
                ELSE store_call.pre[i]
       /\ \A i \in 1..Len(store_call.pre) :
             (store_call.pre[i].role = "system"
                \/ store_call.pre[i].channel_id # store_call.channel_id)
             => store_call.tab[i] = store_call.pre[i]
       /\ store_call.rowcount = Cardinality(ToMark)

\* A call marked one row and left alone a system row of the channel and a row
\* of the other channel, both non-compacted and with ids up to up_to_id.
C30_Witness ==
    /\ store_call # <<>> /\ store_call.calls > 0
    /\ store_call.rowcount = 1
    /\ \E i, j \in 1..Len(store_call.tab) :
          /\ i <= store_call.up_to_id /\ j <= store_call.up_to_id
          /\ store_call.tab[i].role = "system"
          /\ store_call.tab[i].channel_id = store_call.channel_id
          /\ ~store_call.tab[i].compacted
          /\ store_call.tab[j].role # "system"
          /\ store_call.tab[j].channel_id # store_call.channel_id
          /\ ~store_call.tab[j].compacted

\* =====================================================================
\* _run_agent_loop: the continuation nudge (bot/client.py)
\* =====================================================================

\* C31: an LLM call of a turn that is answered by an assistant message
\* without tool calls ends the turn: that message is the only row stored by
\* the step, no user-role nudge follows it, and its text is the final
\* response of the turn, whatever the text holds.
C31_TextAnswerEndsTurn ==
    [][\A t \in Tasks :
          (/\ h[t].pc = "llm"
           /\ h'[t].llm_calls = h[t].llm_calls + 1
           /\ Len(messages') > Len(messages)
           /\ ~has_tool_calls(row_to_message(messages'[Len(messages) + 1])))
          => /\ Len(messages') = Len(messages) + 1
             /\ h'[t].pc = "send"
             /\ h'[t].final_text = messages'[Len(messages) + 1].content]_vars

\* =====================================================================
\* ProviderChain.chat: the waits between attempts (models/base.py)
\* =====================================================================

\* The failed attempts of the chat call in hand on the primary provider and
\* on the fallback providers.
PrimaryFailures ==
    {k \in 1..Len(chain.log) : ~chain.log[k].ok /\ chain.log[k].provider = "primary"}
FallbackFailures ==
    {k \in 1..Len(chain.log) : ~chain.log[k].ok /\ chain.log[k].provider # "primary"}

\* The wait of the retry policy after failed attempt number k (from 0) out
\* of max_retries with retry_delay: before a retry, retry_delay * 2^(k+2)
\* capped at 30 s on a rate-limit error and retry_delay * (k+1) on another
\* error; after the last attempt 5 s on a rate-limit error, else none.
PolicyWait(retry_delay, k, max_retries, error) ==
    IF k # max_retries - 1
    THEN IF error = "rate limit"
         THEN (IF retry_delay * (2 ^ (k + 2)) > 30 THEN 30 ELSE retry_delay * (2 ^ (k + 2)))
         ELSE retry_delay * (k + 1)
    ELSE IF error = "rate limit" THEN 5 ELSE 0

\* C32: after every failed attempt on a primary model the chain waits as the
\* retry policy says.
C32_PrimaryBackoff ==
    \A k \in PrimaryFailures :
        chain.log[k].slept =
            PolicyWait(chain.retry_delay, chain.log[k].attempt, chain.max_retries,
                       chain.log[k].error)

\* A call on a chain with retry_delay 8 whose first attempt was rate-limited
\* (wait capped at 30 s), whose second and last attempt on that model was
\* rate-limited too (5 s), and which then failed otherwise on the next model
\* (8 s).
C32_Witness ==
    /\ Len(chain.log) >= 3
    /\ \A k \in 1..3 : k \in PrimaryFailures
    /\ <<chain.log[1].slept, chain.log[2].slept, chain.log[3].slept>> = <<30, 5, 8>>

\* C33: a fallback model gets max_retries attempts like a primary model, and
\* after every failed attempt on a fallback model the chain waits as the
\* retry policy says.
C33_FallbackSamePolicy ==
    /\ \A k \in FallbackFailures :
          chain.log[k].slept =
              PolicyWait(chain.retry_delay, chain.log[k].attempt, chain.max_retries,
                         chain.log[k].error)
    /\ \A k \in 1..Len(chain.log) : chain.log[k].attempt < chain.max_retries

\* =====================================================================
\* cron_matches and next_cron_time on five fields (cron/scheduler.py)
\* =====================================================================

\* The calendar of the runs is a small one: an hour of MinutesPerHour
\* minutes, a day of HoursPerDay hours, months of DaysPerMonth days, a year
\* of MonthsPerYear months, a week of DaysPerWeek days.  Times are half
\* minutes counted from 00:00:00 on day 1 of month 1, a weekday 0.
\* next_cron_time scans ScanDays days, one day more than a year, as 366 is.
MinutesPerHour == 4
HoursPerDay == 2
DaysPerMonth == 2
MonthsPerYear == 2
DaysPerWeek == 3
ScanDays == (DaysPerMonth * MonthsPerYear) + 1
Day == Minute * MinutesPerHour * HoursPerDay

\* The fields of a datetime.
dt_minute(dt) == (dt \div Minute) % MinutesPerHour
dt_hour(dt) == (dt \div (Minute * MinutesPerHour)) % HoursPerDay
dt_day(dt) == ((dt \div Day) % DaysPerMonth) + 1
dt_month(dt) == ((dt \div (Day * DaysPerMonth)) % MonthsPerYear) + 1
dt_weekday(dt) == (dt \div Day) % DaysPerWeek

\* A field of a cron expression: "*", "*/n" or a number.
FieldAny == [kind |-> "*", n |-> 0]
FieldStep(n) == [kind |-> "*/", n |-> n]
FieldValue(n) == [kind |-> "value", n |-> n]

\* _parse_cron_field(field_str, min_val, max_val) for a field of one part.
_parse_cron_field(part, min_val, max_val) ==
    CASE part.kind = "*" -> min_val..max_val
      [] part.kind = "*/" -> {v \in min_val..max_val : (v - min_val) % part.n = 0}
      [] part.kind = "value" -> {part.n}

\* cron_matches(expr, dt) on the five fields of expr.
cron_matches_fields(expr, dt) ==
    /\ dt_minute(dt) \in _parse_cron_field(expr.minute, 0, MinutesPerHour - 1)
    /\ dt_hour(dt) \in _parse_cron_field(expr.hour, 0, HoursPerDay - 1)
    /\ dt_day(dt) \in _parse_cron_field(expr.dom, 1, DaysPerMonth)
    /\ dt_month(dt) \in _parse_cron_field(expr.month, 1, MonthsPerYear)
    /\ dt_weekday(dt) \in _parse_cron_field(expr.dow, 0, DaysPerWeek - 1)

\* after.replace(second=0, microsecond=0)
replace_second_0(after) == after - (after % Minute)

\* The scan starting at the minute of `after` itself.
first_minute_at(after) == replace_second_0(after)

\* dt = after.replace(second=0, microsecond=0) + timedelta(minutes=1)
first_minute(after) == replace_second_0(after) + Minute

\* The while loop of next_cron_time from dt on: the first matching minute
\* before limit, NoTime for the ValueError.
RECURSIVE scan_minutes(_, _, _)
scan_minutes(expr, dt, limit) ==
    IF ~(dt < limit) THEN NoTime
    ELSE IF cron_matches_fields(expr, dt) THEN dt
    ELSE scan_minutes(expr, dt + Minute, limit)

\* next_cron_time(expr, after) on the five fields of expr.
next_cron_time_fields(expr, after) ==
    scan_minutes(expr, first_minute(after), after + (ScanDays * Day))

\* The expressions of the runs: every field "*" or a number of its range,
\* the minute field also "*/2", the day of month also a day that no month
\* has.
CronExpressions ==
    [minute : {FieldAny, FieldStep(2)} \cup {FieldValue(n) : n \in 0..MinutesPerHour - 1},
     hour : {FieldAny} \cup {FieldValue(n) : n \in 0..HoursPerDay - 1},
     dom : {FieldAny} \cup {FieldValue(n) : n \in 1..DaysPerMonth + 1},
     month : {FieldAny} \cup {FieldValue(n) : n \in 1..MonthsPerYear},
     dow : {FieldAny} \cup {FieldValue(n) : n \in 0..DaysPerWeek - 1}]

\* The times `after` of the runs: every half minute of the first year.
AfterTimes == 0..(Day * DaysPerMonth * MonthsPerYear) - 1

\* next_cron_time(expr, after) is called and returns or raises.
NextCronTime ==
    /\ cron_call # <<>>
    /\ cron_call.pc = "call"
    /\ LET next_dt == next_cron_time_fields(cron_call.expr, cron_call.after)
       IN  cron_call' = [cron_call EXCEPT
                            !.pc = IF next_dt = NoTime THEN "ValueError" ELSE "returned",
                            !.result = next_dt]
    /\ UNCHANGED <<orchestrator_vars, chain, cron_vars, agent_vars, chunker, inbox,
                   store_call, shutdown>>

InitCronExpr ==
    /\ OrchestratorIdle
    /\ ChainIdle
    /\ CronIdle
    /\ AgentsIdle
    /\ chunker = <<>>
    /\ inbox = <<>>
    /\ store_call = <<>>
    /\ shutdown = <<>>
    /\ \E expr \in CronExpressions, after \in AfterTimes :
          cron_call = [expr |-> expr, after |-> after, pc |-> "call", result |-> NoTime]

NextCronExpr == NextCronTime

SpecCronExpr == InitCronExpr /\ [][NextCronExpr]_vars

\* The whole minutes later than `after` and less than ScanDays days after it
\* at which the five fields of the expression match: a minute matches when
\* each of its fields is one the expression allows.
Allowed(part, lo, hi, v) ==
    \/ part.kind = "*" /\ v \in lo..hi
    \/ part.kind = "*/" /\ v \in lo..hi /\ (v - lo) % part.n = 0
    \/ part.kind = "value" /\ v = part.n
MatchingMinutes ==
    {dt \in cron_call.after + 1..cron_call.after + (ScanDays * Day) - 1 :
        /\ dt % Minute = 0
        /\ Allowed(cron_call.expr.minute, 0, MinutesPerHour - 1, dt_minute(dt))
        /\ Allowed(cron_call.expr.hour, 0, HoursPerDay - 1, dt_hour(dt))
        /\ Allowed(cron_call.expr.dom, 1, DaysPerMonth, dt_day(dt))
        /\ Allowed(cron_call.expr.month, 1, MonthsPerYear, dt_month(dt))
        /\ Allowed(cron_call.expr.dow, 0, DaysPerWeek - 1, dt_weekday(dt))}

\* C34: next_cron_time returns the earliest whole minute later than `after`
\* and within the scanned days at which the five fields match, and raises
\* when there is none; with "*/2" as minute field it gives minute 2 of the
\* hour from 1:30 and minute 0 of the next hour from 2:00.
C34_NextCronTimeEarliest ==
    (cron_call # <<>> /\ cron_call.pc # "call")
    => /\ cron_call.pc = "ValueError" <=> MatchingMinutes = {}
       /\ cron_call.pc = "returned"
          => /\ cron_call.result \in MatchingMinutes
             /\ \A dt \in MatchingMinutes : cron_call.result <= dt
       /\ (cron_call.expr = [minute |-> FieldStep(2), hour |-> FieldAny, dom |-> FieldAny,
                             month |-> FieldAny, dow |-> FieldAny])
          => /\ cron_call.after = 3 => cron_call.result = 2 * Minute
             /\ cron_call.after = 2 * Minute => cron_call.result = 4 * Minute

\* Called on a whole minute that matches the expression, next_cron_time
\* returned a later day's minute.
C34_Witness ==
    /\ cron_call # <<>> /\ cron_call.pc = "returned"
    /\ cron_call.after % Minute = 0
    /\ cron_matches_fields(cron_call.expr, cron_call.after)
    /\ cron_call.result >= cron_call.after + Day

\* =====================================================================
\* PlugBot.shutdown and the signal handlers (bot/client.py)
\* =====================================================================

\* The signals of a run.
MaxSignals == 2

\* The components that shutdown stops without an await, and those whose
\* close it awaits, in the order of the code.
StoppedFirst == <<"cron_scheduler", "health">>
Awaited == <<"ollama_provider", "agent_manager", "cron_store", "executor",
             "provider", "store", "client">>
Components == {StoppedFirst[k] : k \in 1..Len(StoppedFirst)} \cup {Awaited[k] : k \in 1..Len(Awaited)}

\* One more call of the stop or close of each component of cs.
invoke(calls, cs) == [c \in Components |-> IF c \in cs THEN calls[c] + 1 ELSE calls[c]]

\* The bot after start(): no signal yet, nothing stopped. ollama tells
\* whether an ollama provider is configured.
BotStarted(ollama) ==
    [ollama |-> ollama, signals |-> 0, tasks |-> <<>>,
     calls |-> [c \in Components |-> 0], client_closed |-> FALSE, loop |-> "running"]

\* start, lines 185-188: the handler of SIGTERM or SIGINT runs and creates a
\* task for shutdown().
Signal ==
    /\ shutdown # <<>>
    /\ shutdown.loop = "running"
    /\ shutdown.signals < MaxSignals
    /\ shutdown' = [shutdown EXCEPT !.signals = @ + 1, !.tasks = Append(@, 0)]
    /\ UNCHANGED <<orchestrator_vars, chain, cron_vars, agent_vars, chunker, inbox,
                   store_call, cron_call>>

\* The component whose close a shutdown task awaits next after the await of
\* Awaited[p] (p = 0 at the start): an absent ollama provider is passed over,
\* and so is a client that is closed.
RECURSIVE next_await(_, _)
next_await(s, p) ==
    IF p >= Len(Awaited) THEN Len(Awaited) + 1
    ELSE IF \/ Awaited[p + 1] = "ollama_provider" /\ ~s.ollama
            \/ Awaited[p + 1] = "client" /\ s.client_closed
         THEN next_await(s, p + 1)
         ELSE p + 1

\* shutdown, lines 198-222, from one await to the next: task k starts, or
\* the close it awaited has returned; it goes on to its next await, where
\* the close of the next component is invoked, or to its end.
ShutdownStep(k) ==
    LET p == shutdown.tasks[k]
        q == next_await(shutdown, p)
        first == IF p = 0 THEN {StoppedFirst[j] : j \in 1..Len(StoppedFirst)} ELSE {}
        awaited == IF q <= Len(Awaited) THEN {Awaited[q]} ELSE {}
    IN
    /\ shutdown # <<>>
    /\ shutdown.loop = "running"
    /\ k \in 1..Len(shutdown.tasks)
    /\ p <= Len(Awaited)
    /\ shutdown' = [shutdown EXCEPT
                       !.tasks[k] = q,
                       !.calls = invoke(@, first \cup awaited),
                       !.client_closed = @ \/ "client" \in awaited]
    /\ UNCHANGED <<orchestrator_vars, chain, cron_vars, agent_vars, chunker, inbox,
                   store_call, cron_call>>

\* The client is closed: client.start returns, start() ends and with it the
\* event loop; the shutdown tasks that have not ended are cancelled.
LoopStop ==
    /\ shutdown # <<>>
    /\ shutdown.loop = "running"
    /\ shutdown.client_closed
    /\ shutdown' = [shutdown EXCEPT !.loop = "stopped"]
    /\ UNCHANGED <<orchestrator_vars, chain, cron_vars, agent_vars, chunker, inbox,
                   store_call, cron_call>>

InitShutdown ==
    /\ OrchestratorIdle
    /\ ChainIdle
    /\ CronIdle
    /\ AgentsIdle
    /\ chunker = <<>>
    /\ inbox = <<>>
    /\ store_call = <<>>
    /\ cron_call = <<>>
    /\ \E ollama \in BOOLEAN : shutdown = BotStarted(ollama)

NextShutdown ==
    \/ Signal
    \/ \E k \in 1..MaxSignals : ShutdownStep(k)
    \/ LoopStop

SpecShutdown == InitShutdown /\ [][NextShutdown]_vars

\* The shutdown tasks that have started and not ended.
InShutdown ==
    {k \in 1..Len(shutdown.tasks) : 0 < shutdown.tasks[k] /\ shutdown.tasks[k] <= Len(Awaited)}

\* C35: whatever signals arrive, the stop or close of every component is
\* invoked at most once and at most one shutdown is under way.
C35_ShutdownOnce ==
    shutdown # <<>>
    => /\ \A c \in Components : shutdown.calls[c] <= 1
       /\ Cardinality(InShutdown) <= 1

\* =====================================================================
\* The in-progress mark of a location (bot/client.py on_message)
\* =====================================================================

\* C36: a location is in _processing exactly while a turn for it is in
\* progress: when a turn ends, by its response, by the early return on an
\* empty text or after an exception, its location is out of _processing and
\* a message for it is admitted.
C36_MarkReleased ==
    /\ [](processing = {h[t].ch : t \in {u \in Tasks : Active(u)}})
    /\ [][\A t \in Tasks :
            (Active(t) /\ ~Active(t)') => Admitted(h[t].ch)']_vars

\* After a turn for the location that ended with no answer stored (an
\* exception was raised, or the LLM call failed), a further message for it
\* was admitted and its turn has begun.
C36_Witness ==
    /\ Len(messages) = 2
    /\ \A i \in 1..2 : messages[i].role = "user" /\ messages[i].channel_id = "c1"
    /\ \E t \in Tasks : h[t].pc \in {"compact", "llm"} /\ h[t].ch = "c1"
    /\ processing = {"c1"}

\* =====================================================================
\* chunk_message: progress of the loop (bot/chunker.py)
\* =====================================================================

\* What is left of the remaining text after the turn of the loop that is
\* about to run.
remaining_after_turn ==
    lstrip_newlines(py_suffix(chunker.remaining,
                              _find_split_point(chunker.remaining, chunker.max_length)))

\* C37: every turn of the loop of chunk_message that splits the remaining
\* text leaves a shorter remaining text.
C37_LoopShortensRemaining ==
    (/\ chunker # <<>>
     /\ chunker.pc = "loop"
     /\ Len(chunker.remaining) > chunker.max_length)
    => Len(remaining_after_turn) < Len(chunker.remaining)

\* =====================================================================
\* Recording a run: mark_run under store errors and store updates
\* (cron/scheduler.py)
\* =====================================================================

\* Where a mark_run call may raise: at the UPDATE, at the INSERT, at the
\* commit; or nowhere. What was executed before stays in the transaction of
\* the connection, which nothing rolls back, and is what the store reads.
MarkRunFaults == {"none", "UPDATE", "INSERT", "commit"}

\* mark_run(job, status) of _tick for the job just run, raising at `fault`.
\* The job object is changed first (lines 256-263), then the UPDATE and the
\* INSERT are executed and committed. An error out of the mark_run of line
\* 345 is caught by the `except Exception` of line 350, which calls mark_run
\* again with status error on the same job object; an error out of a
\* mark_run of an except clause leaves _tick and is logged by _loop. Errors
\* are capped at run_count MaxRuns.
MarkRunAttempt(l, fault) ==
    LET loop == sched.tasks[l]
        job == loop.due[loop.k]
        ran == mark_run(job, now)
    IN
    /\ loop.pc = "mark"
    /\ fault # "none" => job.run_count < MaxRuns
    /\ cron_jobs' = IF fault = "UPDATE" THEN cron_jobs
                    ELSE [cron_jobs EXCEPT ![job.id] = update_row(@, ran)]
    /\ cron_runs' = IF fault \in {"UPDATE", "INSERT"} THEN cron_runs
                    ELSE Append(cron_runs, CronRun(job, now, run_status(loop.outcome)))
    /\ sched' = [sched EXCEPT !.tasks[l] =
                    IF fault = "none"
                    THEN IF loop.k < Len(loop.due)
                         THEN [@ EXCEPT !.pc = "exec", !.k = @ + 1, !.outcome = ""]
                         ELSE [@ EXCEPT !.pc = "loop", !.outcome = "", !.due = <<>>, !.k = 0]
                    ELSE IF loop.outcome = "return"
                    THEN [@ EXCEPT !.outcome = "Exception", !.due[loop.k] = ran]
                    ELSE [@ EXCEPT !.pc = "loop", !.outcome = "", !.due = <<>>, !.k = 0]]
    /\ UNCHANGED <<now, orchestrator_vars, chain, agent_vars, function_vars>>

\* CronStore.update(job_id, enabled=False)
StoreDisable(j) ==
    /\ j \in 1..Len(cron_jobs)
    /\ cron_jobs[j].enabled
    /\ cron_jobs' = [cron_jobs EXCEPT ![j].enabled = FALSE]
    /\ UNCHANGED <<cron_runs, now, sched, orchestrator_vars, chain, agent_vars,
                   function_vars>>

\* A scheduler whose loop task was started.
InitCronStore ==
    /\ OrchestratorIdle
    /\ FunctionsIdle
    /\ ChainIdle
    /\ AgentsIdle
    /\ cron_jobs = <<>>
    /\ cron_runs = <<>>
    /\ now = StartTime
    /\ sched = [NewScheduler EXCEPT !._running = TRUE, !._task = 1, !.tasks = <<NewLoop>>]

NextCronStore ==
    \/ \E schedule \in JobSchedules : CronAdd(schedule)
    \/ ClockAdvance
    \/ LoopTick(1)
    \/ \E outcome \in ExecutorOutcomes : ExecutorDone(1, outcome)
    \/ \E fault \in MarkRunFaults : MarkRunAttempt(1, fault)
    \/ \E j \in 1..MaxJobs : StoreDisable(j)

SpecCronStore == InitCronStore /\ [][NextCronStore]_vars

\* C38: the run_count of every stored job is the number of runs recorded
\* for it.
C38_RunCountMatchesRuns ==
    \A j \in JobIds : cron_jobs[j].run_count = Cardinality(RunsOf(j))

\* C40: recording a run never turns enabled from false to true.
C40_MarkRunNeverEnables ==
    [][\A j \in 1..Len(cron_jobs) :
          (~cron_jobs[j].enabled /\ Len(cron_jobs') = Len(cron_jobs)) => ~cron_jobs'[j].enabled]_vars
====
